---- MODULE Spec2Model ----
(***************************************************************************)
(* LinkinSyncServer: the thread-safe music state (NowPlaying, PlayHistory), *)
(* the mood service (MatchSongsToMood, GetLyricsWithMood, DetectMood) and   *)
(* the chat handler (processChatRequest).                                   *)
(*                                                                         *)
(* A program counter is a pair <<function, line>>: the line is the line of *)
(* the source file the caller executes next.                               *)
(***************************************************************************)
EXTENDS Integers, Sequences, FiniteSets, TLC

\* ------------------------------------------------------------- bounds
\* Concurrent callers of the NowPlaying / PlayHistory stores.
NumClients == 2
\* Largest value time.Now() takes (the zero time.Time is 0).
MaxClock == 2
\* Largest maxItems a PlayHistory is created with.
MaxItemsBound == 2
\* AddUnified calls made on one PlayHistory.
MaxAdds == 3
\* Longest candidate list taken from a playlist of the library.
MaxTracks == 3
\* Length of the candidate list whose lookups all fail (more than the semaphore holds).
PoolTracks == 6
\* Largest limit given to MatchSongsToMood (the smallest is -1).
MaxLimit == 2
\* GetLyricsWithMood calls made on one service.
MaxLookups == 4
\* UpdateNowPlaying and GetLyricsForCurrentSong calls made on one repository.
MaxRepoCalls == 4
\* The calls of UpdateNowPlaying other requests make while a chat request is served.
MaxOtherUpdates == 1
\* GetLyricsWithMood calls made on one service over names that hold a hyphen.
MaxKeyCalls == 2
\* SaveUserMoodHistory calls made on one service.
MaxSaves == 2
\* Candidates taken from a playlist of the library in the runs under fair scheduling.
FairTracks == 2

VARIABLES
    clock,      \* the value time.Now() returns
    np,         \* the NowPlaying struct: its six data fields
    npWriter,   \* np.mutex: the caller holding the write lock, 0 when free
    npReaders,  \* np.mutex: the callers holding a read lock
    npPc,       \* per caller: <<function, line>>
    npArg,      \* per caller: the argument of the call in progress
    npRet,      \* per caller: the value being built for return
    npAbs,      \* history: the record after the writes, in lock order, run one by one
    npLast,     \* history: the last write that took effect: "none", "Update", "UpdateLyrics"
    npCleared,  \* history: the lyrics the last Update overwrote
    phItems,    \* PlayHistory.items, most recent first
    phMax,      \* PlayHistory.maxItems
    phWriter,   \* ph.mutex: the caller holding the write lock, 0 when free
    phReaders,  \* ph.mutex: the callers holding a read lock
    phPc,       \* per caller: <<function, line>>
    phArg,      \* per caller: the UnifiedTrack given to AddUnified
    phItem,     \* per caller: the local `item` of AddUnified
    phRet,      \* per caller: itemsCopy of GetItems
    phLog,      \* history: the items added, in lock order, oldest first
    msMood,     \* MatchSongsToMood: the argument mood
    msTracks,   \* MatchSongsToMood: the argument userTracks
    msLimit,    \* MatchSongsToMood: the argument limit
    msPc,       \* the caller of MatchSongsToMood: <<function, line>>
    msI,        \* the index (from 1) of the track the range loop reaches next
    msWg,       \* wg: the WaitGroup counter
    msSem,      \* semaphore: the number of elements in the channel's buffer
    msMutex,    \* mutex: the worker holding it, 0 when free
    msRecs,     \* recommendations
    msW,        \* per track index, the goroutine started for it: line, locals
    msCache,    \* s.lyricsCache: cache key -> *LyricsWithMood
    msResult,   \* the slice MatchSongsToMood returned
    msPrev,     \* history: what the previous call with the same arguments returned
    glPc,       \* per caller of GetLyricsWithMood: <<function, line>>
    glArg,      \* per caller: trackName and artistName
    glLyrics,   \* per caller: the local `lyrics`
    glRet,      \* per caller: the record found or built (`cached`, `result`)
    glInvoked,  \* history, per caller: invocations of Genius and the AI by the call in progress
    glSeen,     \* history, per caller: the records earlier calls for the key had returned when the call began
    glHist,     \* history: <<cache key, record>> for every record a call returned
    glWriter,   \* s.cacheMutex: the caller holding the write lock, 0 when free
    glReaders,  \* s.cacheMutex: the callers holding a read lock
    glCalls,    \* the number of GetLyricsWithMood calls begun
    glRetry,    \* history, per caller: the call began after a failed call for its key and no call has stored a record for the key since
    glCacheFor, \* history: cache key -> the lower-cased <<name, artist>> the cached record was fetched for
    dmMsg,      \* DetectMood: the argument message
    dmPc,       \* the caller of DetectMood: <<function, line>>
    dmResp,     \* the kind of answer the AI gave to the call: "error", "text", "json"
    dmLeft,     \* fallbackMoodDetection: the moods the range loop has not visited
    dmRet,      \* what DetectMood returns: the error flag and the analysis
    dmPrev,     \* history: the return line and value of the previous call with the same message
    chQuery,    \* processChatRequest: the argument query
    chPc,       \* the chat request: <<function, line>>
    chTrace,    \* history: the handlers the request was given to, in order
    chCalls,    \* history: the collaborators the request invoked, in order
    chMood,     \* handleMoodBasedQuery: the local moodAnalysis
    chLyrics,   \* handleLyricsQuery: the local lyrics
    chSongInfo, \* what GetCurrentSongInfo returned to handleLyricsQuery
    chResp,     \* the ChatResponse returned
    chAI,       \* history: what the AI collaborator answered to the request, in order
    mrCache,    \* MusicRepository.lyricsCache: "name|artist" -> lyrics
    mrPc,       \* per caller of the repository: <<function, line>>
    mrTrack,    \* per caller: the track given to UpdateNowPlaying or UpdateNowPlayingUnified
    mrCur,      \* per caller: the local `current` of GetLyricsForCurrentSong
    mrLyr,      \* per caller: the local `lyrics`
    mrOut,      \* per caller: what GetLyricsForCurrentSong returns
    mrInvoked,  \* history, per caller: the call in progress has invoked the lyrics provider
    mrSeen,     \* history, per caller: the lyrics earlier calls had returned for the current track when the call began
    mrReturned, \* history: the lyrics successful calls have returned for the current track
    mrFatal,    \* the runtime has stopped the process on a concurrent map access
    mrCalls,    \* the number of repository calls begun
    cpItems,    \* per caller: the slice its last GetItems returned, as backing array and contents
    cpNp,       \* per caller: the NowPlaying value its last Get returned
    cpWrote,    \* history, per caller: the returned values the caller has written to since its last call
    hsFiles,    \* the files of <dataDir>/mood_history: user id -> content
    hsSaved,    \* history: user id -> the SaveUserMoodHistory calls that returned nil, in the order in which they were made
    hsRet,      \* what the last call returned: the user and entries of a GetUserMoodHistory, the error of either call
    hsPrev,     \* history: user id -> the entries the last GetUserMoodHistory without error returned for the user, the call of hsRet excluded
    hsCalls,    \* the number of SaveUserMoodHistory calls made
    hsPc,       \* per caller of SaveUserMoodHistory: <<function, line>>
    hsArg,      \* per caller: the arguments and the local `entry` of its call in progress
    cmUser,     \* calculateMoodMatch: the argument userMood
    cmSong,     \* calculateMoodMatch: the argument songMood
    cmRet       \* calculateMoodMatch: the return statement taken and the value returned, << >> before the call

npVars == <<np, npWriter, npReaders, npPc, npArg, npRet, npAbs, npLast, npCleared>>

phVars == <<phItems, phMax, phWriter, phReaders, phPc, phArg, phItem, phRet, phLog>>

msVars == <<msMood, msTracks, msLimit, msPc, msI, msWg, msSem, msMutex, msRecs, msW,
            msCache, msResult, msPrev>>

\* The variables of a MatchSongsToMood call; the cache belongs to the service.
msCallVars == <<msMood, msTracks, msLimit, msPc, msI, msWg, msSem, msMutex, msRecs, msW,
                msResult, msPrev>>

glVars == <<glPc, glArg, glLyrics, glRet, glInvoked, glSeen, glHist, glWriter, glReaders, glCalls,
            glRetry, glCacheFor>>

dmVars == <<dmMsg, dmPc, dmResp, dmLeft, dmRet, dmPrev>>

chVars == <<chQuery, chPc, chTrace, chCalls, chMood, chLyrics, chSongInfo, chResp, chAI, mrCache>>

\* The variables of a chat request; the cache belongs to the repository.
chCallVars == <<chQuery, chPc, chTrace, chCalls, chMood, chLyrics, chSongInfo, chResp, chAI>>

mrVars == <<mrPc, mrTrack, mrCur, mrLyr, mrOut, mrInvoked, mrSeen, mrReturned, mrFatal, mrCalls>>

cpVars == <<cpItems, cpNp, cpWrote>>

hsVars == <<hsFiles, hsSaved, hsRet, hsPrev, hsCalls, hsPc, hsArg>>

cmVars == <<cmUser, cmSong, cmRet>>

vars == <<clock, npVars, phVars, msVars, glVars, dmVars, chVars, mrVars, cpVars, hsVars, cmVars>>

Clients == 1..NumClients

Min(a, b) == IF a < b THEN a ELSE b

\* ------------------------------------------------------------- inputs
\* SpotifyTrack values handed to Update: two complete tracks that differ in
\* every identity field, and one without artist and album.
SpotifyTracks ==
    { [ID |-> "id1", Name |-> "Song One", Artist |-> "Artist One", Album |-> "Album One"],
      [ID |-> "id2", Name |-> "Song Two", Artist |-> "Artist Two", Album |-> "Album Two"],
      [ID |-> "id3", Name |-> "Song Three", Artist |-> "", Album |-> ""] }

NoTrack == [ID |-> "", Name |-> "", Artist |-> "", Album |-> ""]

LyricsTexts == {"la la la"}

\* ------------------------------------------------------------- NowPlaying
\* NewNowPlaying: &NowPlaying{}, every field its zero value.
NewNowPlaying ==
    [TrackID |-> "", TrackName |-> "", Artist |-> "", Album |-> "", Source |-> "",
     Lyrics |-> "", UpdatedAt |-> 0]

NoRet == [get |-> NewNowPlaying, isEmpty |-> FALSE, info |-> ""]

Idle == <<"idle", 0>>

\* sync.RWMutex: Lock succeeds when nobody holds the mutex, RLock when no writer does.
NPCanLock == npWriter = 0 /\ npReaders = {}

\* An RLock that does not wait for the writer.
NPCanRLockIgnoresWriter == TRUE

NPCanRLock == npWriter = 0

\* The Source a track gives the record: that of a UnifiedTrack, "spotify" for a
\* SpotifyTrack. part_006 has neither the field nor UpdateUnified; the tests of
\* the repository read GetNowPlaying().Source after both updates
\* (music_repository_test.go, lines 45 and 88).
SourceOf(track) == IF "Source" \in DOMAIN track THEN track.Source ELSE "spotify"

\* The assignment Update makes at `line`; the Source is assigned with the album.
NPUpdateAssignKeepsLyrics(s, line, track, now) ==
    CASE line = 29 -> [s EXCEPT !.TrackID = track.ID]
      [] line = 30 -> [s EXCEPT !.TrackName = track.Name]
      [] line = 31 -> [s EXCEPT !.Artist = track.Artist]
      [] line = 32 -> [s EXCEPT !.Album = track.Album, !.Source = SourceOf(track)]
      [] line = 33 -> s
      [] line = 34 -> [s EXCEPT !.UpdatedAt = now]

NPUpdateAssign(s, line, track, now) ==
    CASE line = 29 -> [s EXCEPT !.TrackID = track.ID]
      [] line = 30 -> [s EXCEPT !.TrackName = track.Name]
      [] line = 31 -> [s EXCEPT !.Artist = track.Artist]
      [] line = 32 -> [s EXCEPT !.Album = track.Album, !.Source = SourceOf(track)]
      [] line = 33 -> [s EXCEPT !.Lyrics = ""]
      [] line = 34 -> [s EXCEPT !.UpdatedAt = now]

\* Update and UpdateLyrics as one step each: what a call does to the record when
\* nothing runs between its lines.
RECURSIVE NPUpdateFrom(_, _, _, _)
NPUpdateFrom(s, line, track, now) ==
    IF line > 34 THEN s
    ELSE NPUpdateFrom(NPUpdateAssign(s, line, track, now), line + 1, track, now)

NPUpdateWhole(s, track, now) == NPUpdateFrom(s, 29, track, now)

NPUpdateLyricsWhole(s, lyrics) == [s EXCEPT !.Lyrics = lyrics]

\* The field Get copies at `line` of its composite literal.
NPGetCopy(r, line, s) ==
    CASE line = 50 -> [r EXCEPT !.TrackID = s.TrackID]
      [] line = 51 -> [r EXCEPT !.TrackName = s.TrackName]
      [] line = 52 -> [r EXCEPT !.Artist = s.Artist]
      [] line = 53 -> [r EXCEPT !.Album = s.Album, !.Source = s.Source]
      [] line = 54 -> [r EXCEPT !.Lyrics = s.Lyrics]
      [] line = 55 -> [r EXCEPT !.UpdatedAt = s.UpdatedAt]

NPIsEmpty(s) == s.TrackID = "" \/ s.TrackName = ""

NPGetInfo(s) ==
    IF s.TrackName = "" \/ s.Artist = "" THEN ""
    ELSE s.TrackName \o " by " \o s.Artist

NPInit ==
    /\ np = NewNowPlaying
    /\ npWriter = 0
    /\ npReaders = {}
    /\ npPc = [p \in Clients |-> Idle]
    /\ npArg = [p \in Clients |-> NoTrack]
    /\ npRet = [p \in Clients |-> NoRet]
    /\ npAbs = NewNowPlaying
    /\ npLast = "none"
    /\ npCleared = ""

\* time.Now() advances.
Tick ==
    /\ clock < MaxClock
    /\ clock' = clock + 1
    /\ UNCHANGED <<npVars, phVars, msVars, cmVars, hsVars, cpVars, mrVars, chVars, dmVars, glVars>>

\* A caller enters Update(track).
NPUpdateCall(p, track) ==
    /\ npPc[p] = Idle
    /\ npPc' = [npPc EXCEPT ![p] = <<"Update", 26>>]
    /\ npArg' = [npArg EXCEPT ![p] = track]
    /\ UNCHANGED <<msVars, cmVars, hsVars, cpVars, mrVars, chVars, dmVars, glVars, phVars, clock, np, npWriter, npReaders, npRet, npAbs, npLast, npCleared>>

\* np.mutex.Lock() in Update.
NPUpdateLock(p) ==
    /\ npPc[p] = <<"Update", 26>>
    /\ NPCanLock
    /\ npWriter' = p
    /\ npPc' = [npPc EXCEPT ![p] = <<"Update", 29>>]
    /\ UNCHANGED <<msVars, cmVars, hsVars, cpVars, mrVars, chVars, dmVars, glVars, phVars, clock, np, npReaders, npArg, npRet, npAbs, npLast, npCleared>>

\* One of the six assignments of Update, lines 29 to 34. The call takes effect
\* with its last assignment, which reads time.Now().
NPUpdateWrite(p) ==
    /\ npPc[p][1] = "Update"
    /\ npPc[p][2] \in 29..34
    /\ np' = NPUpdateAssign(np, npPc[p][2], npArg[p], clock)
    /\ npPc' = [npPc EXCEPT ![p] = <<"Update", npPc[p][2] + 1>>]
    /\ npCleared' = IF npPc[p][2] = 33 THEN np.Lyrics ELSE npCleared
    /\ IF npPc[p][2] = 34
         THEN /\ npAbs' = NPUpdateWhole(npAbs, npArg[p], clock)
              /\ npLast' = "Update"
         ELSE UNCHANGED <<npAbs, npLast>>
    /\ UNCHANGED <<msVars, cmVars, hsVars, cpVars, mrVars, chVars, dmVars, glVars, phVars, clock, npWriter, npReaders, npArg, npRet>>

\* The deferred np.mutex.Unlock() of Update; the call returns.
NPUpdateUnlock(p) ==
    /\ npPc[p] = <<"Update", 35>>
    /\ npWriter' = 0
    /\ npPc' = [npPc EXCEPT ![p] = Idle]
    /\ npArg' = [npArg EXCEPT ![p] = NoTrack]
    /\ UNCHANGED <<msVars, cmVars, hsVars, cpVars, mrVars, chVars, dmVars, glVars, phVars, clock, np, npReaders, npRet, npAbs, npLast, npCleared>>

\* A caller enters UpdateLyrics(lyrics).
NPUpdateLyricsCall(p, lyrics) ==
    /\ npPc[p] = Idle
    /\ npPc' = [npPc EXCEPT ![p] = <<"UpdateLyrics", 39>>]
    /\ npArg' = [npArg EXCEPT ![p] = [NoTrack EXCEPT !.Name = lyrics]]
    /\ UNCHANGED <<msVars, cmVars, hsVars, cpVars, mrVars, chVars, dmVars, glVars, phVars, clock, np, npWriter, npReaders, npRet, npAbs, npLast, npCleared>>

\* np.mutex.Lock() in UpdateLyrics.
NPUpdateLyricsLock(p) ==
    /\ npPc[p] = <<"UpdateLyrics", 39>>
    /\ NPCanLock
    /\ npWriter' = p
    /\ npPc' = [npPc EXCEPT ![p] = <<"UpdateLyrics", 41>>]
    /\ UNCHANGED <<msVars, cmVars, hsVars, cpVars, mrVars, chVars, dmVars, glVars, phVars, clock, np, npReaders, npArg, npRet, npAbs, npLast, npCleared>>

\* np.Lyrics = lyrics.
NPUpdateLyricsWrite(p) ==
    /\ npPc[p] = <<"UpdateLyrics", 41>>
    /\ np' = [np EXCEPT !.Lyrics = npArg[p].Name]
    /\ npAbs' = NPUpdateLyricsWhole(npAbs, npArg[p].Name)
    /\ npLast' = "UpdateLyrics"
    /\ npPc' = [npPc EXCEPT ![p] = <<"UpdateLyrics", 42>>]
    /\ UNCHANGED <<msVars, cmVars, hsVars, cpVars, mrVars, chVars, dmVars, glVars, phVars, clock, npWriter, npReaders, npArg, npRet, npCleared>>

\* The deferred np.mutex.Unlock() of UpdateLyrics; the call returns.
NPUpdateLyricsUnlock(p) ==
    /\ npPc[p] = <<"UpdateLyrics", 42>>
    /\ npWriter' = 0
    /\ npPc' = [npPc EXCEPT ![p] = Idle]
    /\ npArg' = [npArg EXCEPT ![p] = NoTrack]
    /\ UNCHANGED <<msVars, cmVars, hsVars, cpVars, mrVars, chVars, dmVars, glVars, phVars, clock, np, npReaders, npRet, npAbs, npLast, npCleared>>

\* A caller enters one of the readers: Get (line 46), IsEmpty (61), GetInfo (69).
NPReadCall(p, fn) ==
    /\ npPc[p] = Idle
    /\ npPc' = [npPc EXCEPT ![p] =
                  CASE fn = "Get" -> <<"Get", 46>>
                    [] fn = "IsEmpty" -> <<"IsEmpty", 61>>
                    [] fn = "GetInfo" -> <<"GetInfo", 69>>]
    /\ npRet' = [npRet EXCEPT ![p] = NoRet]
    /\ UNCHANGED <<msVars, cmVars, hsVars, cpVars, mrVars, chVars, dmVars, glVars, phVars, clock, np, npWriter, npReaders, npArg, npAbs, npLast, npCleared>>

\* np.mutex.RLock() of a reader.
NPRLock(p) ==
    /\ npPc[p] \in {<<"Get", 46>>, <<"IsEmpty", 61>>, <<"GetInfo", 69>>}
    /\ NPCanRLock
    /\ npReaders' = npReaders \cup {p}
    /\ npPc' = [npPc EXCEPT ![p] =
                  CASE npPc[p][1] = "Get" -> <<"Get", 50>>
                    [] npPc[p][1] = "IsEmpty" -> <<"IsEmpty", 64>>
                    [] npPc[p][1] = "GetInfo" -> <<"GetInfo", 72>>]
    /\ UNCHANGED <<msVars, cmVars, hsVars, cpVars, mrVars, chVars, dmVars, glVars, phVars, clock, np, npWriter, npArg, npRet, npAbs, npLast, npCleared>>

\* Get copies one field into the value it returns, lines 50 to 55.
NPGetRead(p) ==
    /\ npPc[p][1] = "Get"
    /\ npPc[p][2] \in 50..55
    /\ npRet' = [npRet EXCEPT ![p].get = NPGetCopy(npRet[p].get, npPc[p][2], np)]
    /\ npPc' = [npPc EXCEPT ![p] =
                  IF npPc[p][2] = 55 THEN <<"Get", 57>> ELSE <<"Get", npPc[p][2] + 1>>]
    /\ UNCHANGED <<msVars, cmVars, hsVars, cpVars, mrVars, chVars, dmVars, glVars, phVars, clock, np, npWriter, npReaders, npArg, npAbs, npLast, npCleared>>

\* IsEmpty evaluates its condition.
NPIsEmptyEval(p) ==
    /\ npPc[p] = <<"IsEmpty", 64>>
    /\ npRet' = [npRet EXCEPT ![p].isEmpty = NPIsEmpty(np)]
    /\ npPc' = [npPc EXCEPT ![p] = <<"IsEmpty", 65>>]
    /\ UNCHANGED <<msVars, cmVars, hsVars, cpVars, mrVars, chVars, dmVars, glVars, phVars, clock, np, npWriter, npReaders, npArg, npAbs, npLast, npCleared>>

\* GetInfo builds its string.
NPGetInfoEval(p) ==
    /\ npPc[p] = <<"GetInfo", 72>>
    /\ npRet' = [npRet EXCEPT ![p].info = NPGetInfo(np)]
    /\ npPc' = [npPc EXCEPT ![p] = <<"GetInfo", 76>>]
    /\ UNCHANGED <<msVars, cmVars, hsVars, cpVars, mrVars, chVars, dmVars, glVars, phVars, clock, np, npWriter, npReaders, npArg, npAbs, npLast, npCleared>>

\* The deferred np.mutex.RUnlock() of a reader; the call returns npRet[p].
NPRUnlock(p) ==
    /\ npPc[p] \in {<<"Get", 57>>, <<"IsEmpty", 65>>, <<"GetInfo", 76>>}
    /\ npReaders' = npReaders \ {p}
    /\ npPc' = [npPc EXCEPT ![p] = Idle]
    /\ npRet' = [npRet EXCEPT ![p] = NoRet]
    /\ UNCHANGED <<msVars, cmVars, hsVars, cpVars, mrVars, chVars, dmVars, glVars, phVars, clock, np, npWriter, npArg, npAbs, npLast, npCleared>>

\* ------------------------------------------------------------- PlayHistory
\* Tracks handed to Add (a SpotifyTrack) and to AddUnified (a UnifiedTrack). Of a
\* UnifiedTrack the model keeps the fields AddUnified reads.
PHSpotifyTracks ==
    { [ID |-> "track1", Name |-> "Song 1", Artist |-> "Artist 1", Album |-> "Album 1"] }

PHUnifiedTracks ==
    { [ID |-> "yt1", Name |-> "Video 1", Artist |-> "Channel 1", Album |-> "",
       Source |-> "youtube"] }

NoUnified == [ID |-> "", Name |-> "", Artist |-> "", Album |-> "", Source |-> ""]

NoItem ==
    [TrackID |-> "", TrackName |-> "", Artist |-> "", Album |-> "", Source |-> "",
     PlayedAt |-> 0]

FromSpotifyTrack(track) ==
    [ID |-> track.ID, Name |-> track.Name, Artist |-> track.Artist,
     Album |-> track.Album, Source |-> "spotify"]

\* The PlayHistoryItem AddUnified builds, lines 43 to 50.
PHNewItem(track, now) ==
    [TrackID |-> track.ID, TrackName |-> track.Name, Artist |-> track.Artist,
     Album |-> track.Album, Source |-> track.Source, PlayedAt |-> now]

\* append([]PlayHistoryItem{item}, ph.items...)
PHPrepend(item, items) == <<item>> \o items

\* A truncation that lets one item too many stay.
PHTruncateOffByOne(items, maxItems) ==
    IF Len(items) > maxItems + 1 THEN SubSeq(items, 1, maxItems + 1) ELSE items

\* if len(ph.items) > ph.maxItems { ph.items = ph.items[:ph.maxItems] }
PHTruncate(items, maxItems) ==
    IF Len(items) > maxItems THEN SubSeq(items, 1, maxItems) ELSE items

\* A prepend that puts the new item behind the others.
PHAddStepAppends(items, line, item, maxItems) ==
    CASE line = 53 -> items \o <<item>>
      [] line = 56 -> PHTruncate(items, maxItems)

\* The statement of AddUnified at `line` that changes ph.items.
PHAddStep(items, line, item, maxItems) ==
    CASE line = 53 -> PHPrepend(item, items)
      [] line = 56 -> PHTruncate(items, maxItems)

PHCanLock == phWriter = 0 /\ phReaders = {}

PHCanRLock == phWriter = 0

\* NewPlayHistory(maxItems), with maxItems a count: 0 or more.
PHInit ==
    /\ phItems = <<>>
    /\ phMax \in 0..MaxItemsBound
    /\ phWriter = 0
    /\ phReaders = {}
    /\ phPc = [p \in Clients |-> Idle]
    /\ phArg = [p \in Clients |-> NoUnified]
    /\ phItem = [p \in Clients |-> NoItem]
    /\ phRet = [p \in Clients |-> <<>>]
    /\ phLog = <<>>

\* Add(track): ph.AddUnified(FromSpotifyTrack(track)).
PHAddCall(p, track) ==
    /\ phPc[p] = Idle
    /\ Len(phLog) + Cardinality({q \in Clients : phPc[q][1] = "AddUnified"}) < MaxAdds
    /\ phPc' = [phPc EXCEPT ![p] = <<"AddUnified", 40>>]
    /\ phArg' = [phArg EXCEPT ![p] = FromSpotifyTrack(track)]
    /\ UNCHANGED <<msVars, cmVars, hsVars, cpVars, mrVars, chVars, dmVars, glVars, npVars, clock, phItems, phMax, phWriter, phReaders, phItem, phRet, phLog>>

\* AddUnified(track) called directly.
PHAddUnifiedCall(p, track) ==
    /\ phPc[p] = Idle
    /\ Len(phLog) + Cardinality({q \in Clients : phPc[q][1] = "AddUnified"}) < MaxAdds
    /\ phPc' = [phPc EXCEPT ![p] = <<"AddUnified", 40>>]
    /\ phArg' = [phArg EXCEPT ![p] = track]
    /\ UNCHANGED <<msVars, cmVars, hsVars, cpVars, mrVars, chVars, dmVars, glVars, npVars, clock, phItems, phMax, phWriter, phReaders, phItem, phRet, phLog>>

\* ph.mutex.Lock() in AddUnified.
PHAddLock(p) ==
    /\ phPc[p] = <<"AddUnified", 40>>
    /\ PHCanLock
    /\ phWriter' = p
    /\ phPc' = [phPc EXCEPT ![p] = <<"AddUnified", 43>>]
    /\ UNCHANGED <<msVars, cmVars, hsVars, cpVars, mrVars, chVars, dmVars, glVars, npVars, clock, phItems, phMax, phReaders, phArg, phItem, phRet, phLog>>

\* item := PlayHistoryItem{...}, stamped with time.Now().
PHAddBuild(p) ==
    /\ phPc[p] = <<"AddUnified", 43>>
    /\ phItem' = [phItem EXCEPT ![p] = PHNewItem(phArg[p], clock)]
    /\ phPc' = [phPc EXCEPT ![p] = <<"AddUnified", 53>>]
    /\ UNCHANGED <<msVars, cmVars, hsVars, cpVars, mrVars, chVars, dmVars, glVars, npVars, clock, phItems, phMax, phWriter, phReaders, phArg, phRet, phLog>>

\* Line 53, the prepend, then line 56, the truncation.
PHAddWrite(p) ==
    /\ phPc[p] \in {<<"AddUnified", 53>>, <<"AddUnified", 56>>}
    /\ phItems' = PHAddStep(phItems, phPc[p][2], phItem[p], phMax)
    /\ phLog' = IF phPc[p][2] = 53 THEN Append(phLog, phItem[p]) ELSE phLog
    /\ phPc' = [phPc EXCEPT ![p] =
                  IF phPc[p][2] = 53 THEN <<"AddUnified", 56>> ELSE <<"AddUnified", 59>>]
    /\ UNCHANGED <<msVars, cmVars, hsVars, cpVars, mrVars, chVars, dmVars, glVars, npVars, clock, phMax, phWriter, phReaders, phArg, phItem, phRet>>

\* The deferred ph.mutex.Unlock() of AddUnified; the call returns.
PHAddUnlock(p) ==
    /\ phPc[p] = <<"AddUnified", 59>>
    /\ phWriter' = 0
    /\ phPc' = [phPc EXCEPT ![p] = Idle]
    /\ phArg' = [phArg EXCEPT ![p] = NoUnified]
    /\ phItem' = [phItem EXCEPT ![p] = NoItem]
    /\ UNCHANGED <<msVars, cmVars, hsVars, cpVars, mrVars, chVars, dmVars, glVars, npVars, clock, phItems, phMax, phReaders, phRet, phLog>>

\* A caller enters GetItems.
PHGetItemsCall(p) ==
    /\ phPc[p] = Idle
    /\ phPc' = [phPc EXCEPT ![p] = <<"GetItems", 63>>]
    /\ UNCHANGED <<msVars, cmVars, hsVars, cpVars, mrVars, chVars, dmVars, glVars, npVars, clock, phItems, phMax, phWriter, phReaders, phArg, phItem, phRet, phLog>>

\* ph.mutex.RLock() in GetItems.
PHGetItemsRLock(p) ==
    /\ phPc[p] = <<"GetItems", 63>>
    /\ PHCanRLock
    /\ phReaders' = phReaders \cup {p}
    /\ phPc' = [phPc EXCEPT ![p] = <<"GetItems", 67>>]
    /\ UNCHANGED <<msVars, cmVars, hsVars, cpVars, mrVars, chVars, dmVars, glVars, npVars, clock, phItems, phMax, phWriter, phArg, phItem, phRet, phLog>>

\* itemsCopy := make(...); copy(itemsCopy, ph.items).
PHGetItemsCopy(p) ==
    /\ phPc[p] = <<"GetItems", 67>>
    /\ phRet' = [phRet EXCEPT ![p] = phItems]
    /\ phPc' = [phPc EXCEPT ![p] = <<"GetItems", 69>>]
    /\ UNCHANGED <<msVars, cmVars, hsVars, cpVars, mrVars, chVars, dmVars, glVars, npVars, clock, phItems, phMax, phWriter, phReaders, phArg, phItem, phLog>>

\* The deferred ph.mutex.RUnlock() of GetItems; the call returns phRet[p].
PHGetItemsRUnlock(p) ==
    /\ phPc[p] = <<"GetItems", 69>>
    /\ phReaders' = phReaders \ {p}
    /\ phPc' = [phPc EXCEPT ![p] = Idle]
    /\ phRet' = [phRet EXCEPT ![p] = <<>>]
    /\ UNCHANGED <<msVars, cmVars, hsVars, cpVars, mrVars, chVars, dmVars, glVars, npVars, clock, phItems, phMax, phWriter, phArg, phItem, phLog>>

\* A store that the specification of another component leaves alone.
PHIdle ==
    /\ phItems = <<>>
    /\ phMax = 0
    /\ phWriter = 0
    /\ phReaders = {}
    /\ phPc = [p \in Clients |-> Idle]
    /\ phArg = [p \in Clients |-> NoUnified]
    /\ phItem = [p \in Clients |-> NoItem]
    /\ phRet = [p \in Clients |-> <<>>]
    /\ phLog = <<>>

NextPlayHistory ==
    \/ Tick
    \/ \E p \in Clients, track \in PHSpotifyTracks : PHAddCall(p, track)
    \/ \E p \in Clients, track \in PHUnifiedTracks : PHAddUnifiedCall(p, track)
    \/ \E p \in Clients : PHAddLock(p)
    \/ \E p \in Clients : PHAddBuild(p)
    \/ \E p \in Clients : PHAddWrite(p)
    \/ \E p \in Clients : PHAddUnlock(p)
    \/ \E p \in Clients : PHGetItemsCall(p)
    \/ \E p \in Clients : PHGetItemsRLock(p)
    \/ \E p \in Clients : PHGetItemsCopy(p)
    \/ \E p \in Clients : PHGetItemsRUnlock(p)

NextNowPlaying ==
    \/ Tick
    \/ \E p \in Clients, track \in SpotifyTracks : NPUpdateCall(p, track)
    \/ \E p \in Clients : NPUpdateLock(p)
    \/ \E p \in Clients : NPUpdateWrite(p)
    \/ \E p \in Clients : NPUpdateUnlock(p)
    \/ \E p \in Clients, lyrics \in LyricsTexts : NPUpdateLyricsCall(p, lyrics)
    \/ \E p \in Clients : NPUpdateLyricsLock(p)
    \/ \E p \in Clients : NPUpdateLyricsWrite(p)
    \/ \E p \in Clients : NPUpdateLyricsUnlock(p)
    \/ \E p \in Clients, fn \in {"Get", "IsEmpty", "GetInfo"} : NPReadCall(p, fn)
    \/ \E p \in Clients : NPRLock(p)
    \/ \E p \in Clients : NPGetRead(p)
    \/ \E p \in Clients : NPIsEmptyEval(p)
    \/ \E p \in Clients : NPGetInfoEval(p)
    \/ \E p \in Clients : NPRUnlock(p)

\* ------------------------------------------------------------- mood service
\* Scores are float64 in the code; the model counts them in thousandths, and the
\* inputs are chosen so that every product and quotient below is exact.

\* make(chan struct{}, 5)
SemaphoreCap == 5

\* if matchScore > 0.5
MatchThreshold == 500

\* A table that relates moods of the enumeration to each other.
RelatedMoodsOfTheEight ==
    [sad |-> <<"lonely", "nostalgic">>,
     happy |-> <<"energetic", "calm">>,
     angry |-> <<"anxious">>,
     lonely |-> <<"sad">>,
     anxious |-> <<"angry">>,
     nostalgic |-> <<"sad">>,
     energetic |-> <<"happy">>,
     calm |-> <<"happy">>]

\* interface.go, RelatedMoods.
RelatedMoods ==
    [sad |-> <<"melancholic", "depressed", "sorrowful", "grief">>,
     happy |-> <<"joyful", "excited", "cheerful", "elated">>,
     angry |-> <<"frustrated", "bitter", "defiant", "aggressive">>,
     lonely |-> <<"isolated", "disconnected", "yearning", "longing">>,
     anxious |-> <<"worried", "tense", "uneasy", "stressed">>,
     nostalgic |-> <<"sentimental", "wistful", "reflective", "bittersweet">>,
     energetic |-> <<"pumped", "motivated", "dynamic", "vigorous">>,
     calm |-> <<"peaceful", "relaxed", "meditative", "zen">>]

Range(seq) == {seq[i] : i \in DOMAIN seq}

\* The songs of the user's library: the UnifiedTrack fields MatchSongsToMood reads.
Song(id, name, artist) == [ID |-> id, Name |-> name, Artist |-> artist]

\* unicode.ToLower on one character (a string of length 1), for ASCII.
LowerChar(c) ==
    CASE c = "A" -> "a"
      [] c = "B" -> "b"
      [] c = "C" -> "c"
      [] c = "D" -> "d"
      [] c = "E" -> "e"
      [] c = "F" -> "f"
      [] c = "G" -> "g"
      [] c = "H" -> "h"
      [] c = "I" -> "i"
      [] c = "J" -> "j"
      [] c = "K" -> "k"
      [] c = "L" -> "l"
      [] c = "M" -> "m"
      [] c = "N" -> "n"
      [] c = "O" -> "o"
      [] c = "P" -> "p"
      [] c = "Q" -> "q"
      [] c = "R" -> "r"
      [] c = "S" -> "s"
      [] c = "T" -> "t"
      [] c = "U" -> "u"
      [] c = "V" -> "v"
      [] c = "W" -> "w"
      [] c = "X" -> "x"
      [] c = "Y" -> "y"
      [] c = "Z" -> "z"
      [] OTHER -> c

RECURSIVE ToLowerFrom(_, _)
ToLowerFrom(str, i) ==
    IF i > Len(str) THEN "" ELSE LowerChar(SubSeq(str, i, i)) \o ToLowerFrom(str, i + 1)

\* strings.ToLower
ToLower(str) == ToLowerFrom(str, 1)

\* strings.Contains
Contains(str, substr) ==
    \E i \in 1..(Len(str) - Len(substr) + 1) : SubSeq(str, i, i + Len(substr) - 1) = substr

\* strings.HasPrefix
HasPrefix(str, prefix) == Len(str) >= Len(prefix) /\ SubSeq(str, 1, Len(prefix)) = prefix

\* strings.HasSuffix
HasSuffix(str, suffix) ==
    Len(str) >= Len(suffix) /\ SubSeq(str, Len(str) - Len(suffix) + 1, Len(str)) = suffix

\* s[n:] for n counted in bytes from 0.
DropFirst(str, n) == IF n >= Len(str) THEN "" ELSE SubSeq(str, n + 1, Len(str))

\* s[:n]
TakeFirst(str, n) == IF n <= 0 THEN "" ELSE SubSeq(str, 1, n)

\* strings.TrimSuffix
TrimSuffix(str, suffix) ==
    IF HasSuffix(str, suffix) THEN TakeFirst(str, Len(str) - Len(suffix)) ELSE str

\* strings.TrimLeft and strings.TrimRight with a set of characters.
RECURSIVE TrimLeftSet(_, _)
TrimLeftSet(str, cutset) ==
    IF Len(str) > 0 /\ SubSeq(str, 1, 1) \in cutset THEN TrimLeftSet(DropFirst(str, 1), cutset)
    ELSE str

RECURSIVE TrimRightSet(_, _)
TrimRightSet(str, cutset) ==
    IF Len(str) > 0 /\ SubSeq(str, Len(str), Len(str)) \in cutset
    THEN TrimRightSet(TakeFirst(str, Len(str) - 1), cutset)
    ELSE str

\* strings.Trim(s, cutset)
Trim(str, cutset) == TrimRightSet(TrimLeftSet(str, cutset), cutset)

\* The ASCII white space of unicode.IsSpace: space, \t, \n, \f, \r and the
\* vertical tab, the last element, written as the character itself. The two
\* Latin-1 spaces U+0085 and U+00A0 are no ASCII text and are left out.
WhiteSpace == {" ", "\t", "\n", "\f", "\r", ""}

\* strings.TrimSpace
TrimSpace(str) == Trim(str, WhiteSpace)

\* strings.Index, counted from 1; 0 when substr does not occur.
Index(str, substr) ==
    IF ~Contains(str, substr) THEN 0
    ELSE CHOOSE i \in 1..(Len(str) - Len(substr) + 1) :
            /\ SubSeq(str, i, i + Len(substr) - 1) = substr
            /\ \A j \in 1..(i - 1) : SubSeq(str, j, j + Len(substr) - 1) # substr

\* strings.Split(s, sep) for a separator that occurs in s: the part before the
\* first occurrence, and what follows it.
SplitHead(str, sep) == TakeFirst(str, Index(str, sep) - 1)

SplitRest(str, sep) == DropFirst(str, Index(str, sep) - 1 + Len(sep))

\* Some element of the sequence of patterns occurs in the string.
ContainsAny(str, patterns) == \E k \in DOMAIN patterns : Contains(str, patterns[k])

\* fmt.Sprintf("%s-%s", strings.ToLower(trackName), strings.ToLower(artistName))
CacheKey(trackName, artistName) == ToLower(trackName) \o "-" \o ToLower(artistName)

\* The answers of the collaborators, fixed for a run. geniusService.GetLyrics
\* fails for "Noise" and for the songs of "Nobody"; otherwise the lyrics name the song.
GeniusGetLyrics(trackName, artistName) ==
    IF ToLower(trackName) = "noise" \/ artistName = "Nobody"
    THEN [err |-> TRUE, lyrics |-> ""]
    ELSE [err |-> FALSE, lyrics |-> "lyrics of " \o ToLower(trackName)]

Analysis(mood, score, tags, themes) ==
    [PrimaryMood |-> mood, MoodScore |-> score, EmotionTags |-> tags, Themes |-> themes]

\* aiService.GenerateResponse on the mood prompt built from `lyrics`: an error, a
\* text that is no JSON, or the JSON of an analysis. The AI is free to answer a
\* mood outside the eight, a score outside [0, 1] and repeated tags.
AIGenerateResponse(lyrics) ==
    CASE lyrics = "lyrics of hurt" ->
           [kind |-> "json", json |-> Analysis("sad", 800, <<"melancholic">>, <<"loss", "regret">>)]
      [] lyrics = "lyrics of tears" ->
           [kind |-> "json", json |-> Analysis("sad", 800, <<"grief">>, <<"loss">>)]
      [] lyrics = "lyrics of blue" ->
           [kind |-> "json", json |-> Analysis("melancholic", 500, <<>>, <<>>)]
      [] lyrics = "lyrics of loud" ->
           [kind |-> "json", json |-> Analysis("sad", 2000, <<>>, <<"noise">>)]
      [] lyrics = "lyrics of joy" ->
           [kind |-> "json", json |-> Analysis("happy", 900, <<"grief", "joyful">>, <<"hope">>)]
      [] lyrics = "lyrics of echo" ->
           [kind |-> "json", json |-> Analysis("happy", 400, <<"grief", "grief", "grief">>, <<>>)]
      [] lyrics = "lyrics of static" ->
           [kind |-> "error", json |-> Analysis("", 0, <<>>, <<>>)]
      [] OTHER ->
           [kind |-> "text", json |-> Analysis("", 0, <<>>, <<>>)]

\* The error GetLyricsWithMood returns at line 182 or line 199.
LyricsError ==
    [err |-> TRUE, Lyrics |-> "",
     MoodAnalysis |-> [PrimaryMood |-> "", MoodScore |-> 0, EmotionTags |-> <<>>],
     Themes |-> <<>>]

\* GetLyricsWithMood from the lyrics on, lines 197 to 226: the answer of the AI
\* and the record built from it, or the error of line 199.
AnalyzeLyricsMood(lyrics) ==
    LET resp == AIGenerateResponse(lyrics)
        analysis == IF resp.kind = "json" THEN resp.json
                    ELSE Analysis("calm", 500, <<"uncertain">>, <<"general">>)
    IN  IF resp.kind = "error" THEN LyricsError
        ELSE [err |-> FALSE, Lyrics |-> lyrics,
              MoodAnalysis |-> [PrimaryMood |-> analysis.PrimaryMood,
                                MoodScore |-> analysis.MoodScore,
                                EmotionTags |-> analysis.EmotionTags],
              Themes |-> analysis.Themes]

\* GetLyricsWithMood from the cache miss on, lines 180 to 226: the record it
\* builds, or an error.
FetchLyricsWithMood(trackName, artistName) ==
    LET got == GeniusGetLyrics(trackName, artistName)
    IN  IF got.err THEN LyricsError ELSE AnalyzeLyricsMood(got.lyrics)

\* A goroutine that goes on with whatever the lookup returned.
LookupFailedIgnored(result) == FALSE

\* lyricsData, err := s.GetLyricsWithMood(t.Name, t.Artist); if err != nil { return }
LookupFailed(result) == result.err

NoLyricsData == FetchLyricsWithMood("Noise", "")

\* The number of pairs (userTag, songTag) that are equal.
OverlapCount(userTags, songTags) ==
    Cardinality({pair \in (DOMAIN userTags) \X (DOMAIN songTags) :
                    userTags[pair[1]] = songTags[pair[2]]})

\* calculateMoodMatch, in thousandths.
calculateMoodMatch(userMood, songMood) ==
    IF userMood.PrimaryMood = songMood.PrimaryMood
    THEN 900 + songMood.MoodScore \div 10
    ELSE IF /\ userMood.PrimaryMood \in DOMAIN RelatedMoods
            /\ songMood.PrimaryMood \in Range(RelatedMoods[userMood.PrimaryMood])
    THEN 700 + songMood.MoodScore \div 5
    ELSE LET overlapCount == OverlapCount(userMood.EmotionTags, songMood.EmotionTags)
         IN  IF overlapCount > 0
             THEN 500 + (overlapCount * 300) \div Len(userMood.EmotionTags)
             ELSE 200

\* The return statement calculateMoodMatch takes: line 240, 248, 265 or 268.
MoodMatchReturnLine(userMood, songMood) ==
    IF userMood.PrimaryMood = songMood.PrimaryMood THEN 240
    ELSE IF /\ userMood.PrimaryMood \in DOMAIN RelatedMoods
            /\ songMood.PrimaryMood \in Range(RelatedMoods[userMood.PrimaryMood])
    THEN 248
    ELSE IF OverlapCount(userMood.EmotionTags, songMood.EmotionTags) > 0 THEN 265
    ELSE 268

\* The reasons table of generateMatchReason.
MatchReasons(mood) ==
    CASE mood = "sad" -> "This song captures feelings of sadness and melancholy"
      [] mood = "happy" -> "This uplifting song matches your positive energy"
      [] mood = "angry" -> "This song channels frustration and intensity"
      [] mood = "lonely" -> "This song explores themes of isolation and longing"
      [] mood = "anxious" -> "This song reflects feelings of uncertainty and tension"
      [] mood = "nostalgic" -> "This song brings back memories and reflection"
      [] mood = "energetic" -> "This high-energy track matches your motivated mood"
      [] mood = "calm" -> "This peaceful song promotes relaxation and tranquility"
      [] OTHER -> ""

generateMatchReason(mood, themes) ==
    LET themeStr == IF Len(themes) = 0 THEN ""
                    ELSE IF Len(themes) = 1 THEN themes[1]
                    ELSE themes[1] \o " and " \o themes[2]
    IN  IF themeStr # "" THEN MatchReasons(mood) \o " through themes of " \o themeStr
        ELSE MatchReasons(mood)

\* The MoodBasedRecommendation a worker appends, lines 137 to 141.
Recommendation(t, matchScore, mood, lyricsData) ==
    [Track |-> t, MoodScore |-> matchScore,
     MatchReason |-> generateMatchReason(mood.PrimaryMood, lyricsData.Themes)]

\* An exchange that copies one element over the other.
SwapCopies(seq, i, j) == [seq EXCEPT ![i] = seq[j]]

\* recommendations[i], recommendations[j] = recommendations[j], recommendations[i]
Swap(seq, i, j) == [seq EXCEPT ![i] = seq[j], ![j] = seq[i]]

\* The sort of lines 151 to 157, from the pair (i, j) on (indices from 1).
RECURSIVE SortFrom(_, _, _)
SortFrom(recs, i, j) ==
    IF i > Len(recs) THEN recs
    ELSE IF j > Len(recs) THEN SortFrom(recs, i + 1, i + 2)
    ELSE IF recs[j].MoodScore > recs[i].MoodScore
         THEN SortFrom(Swap(recs, i, j), i, j + 1)
         ELSE SortFrom(recs, i, j + 1)

SortByScore(recs) == SortFrom(recs, 1, 2)

\* ------------------------------------------------------------- MatchSongsToMood
UserMoods ==
    { [PrimaryMood |-> "sad", MoodScore |-> 700, EmotionTags |-> <<"grief", "melancholic">>] }

NoMood == [PrimaryMood |-> "", MoodScore |-> 0, EmotionTags |-> <<>>]

\* Candidate lists: the scores for a sad listener are Hurt 0.98, Tears 0.98,
\* Blue 0.80, Joy 0.65, Loud 1.10, Echo 0.95, Mumble 0.20; the lookups of Noise
\* and Static fail; HURT by CASH shares the cache entry of Hurt by Cash. The
\* last list has a better match behind a worse one.
Playlists ==
    { <<Song("t1", "Hurt", "Cash"), Song("t2", "Tears", "Clapton"),
        Song("t3", "Blue", "Mitchell"), Song("t5", "Joy", "Band")>>,
      <<Song("t4", "Loud", "Band"), Song("t6", "Noise", "Band"),
        Song("t9", "HURT", "CASH"), Song("t8", "Mumble", "Band")>>,
      <<Song("t7", "Static", "Band"), Song("t1", "Hurt", "Cash"),
        Song("t10", "Echo", "Band"), Song("t9", "HURT", "CASH")>>,
      <<Song("t3", "Blue", "Mitchell"), Song("t1", "Hurt", "Cash")>> }

\* A long list of songs Genius has no lyrics for.
PoolPlaylist ==
    <<Song("p1", "Track 1", "Nobody"), Song("p2", "Track 2", "Nobody"),
      Song("p3", "Track 3", "Nobody"), Song("p4", "Track 4", "Nobody"),
      Song("p5", "Track 5", "Nobody"), Song("p6", "Track 6", "Nobody"),
      Song("p7", "Track 7", "Nobody"), Song("p8", "Track 8", "Nobody")>>

Prefix(seq, n) == SubSeq(seq, 1, Min(n, Len(seq)))

CandidateLists ==
    {Prefix(pl, n) : pl \in Playlists, n \in 0..MaxTracks} \cup {Prefix(PoolPlaylist, PoolTracks)}

\* The limits a candidate list is matched with: every limit for the playlists,
\* the largest for the long list, none of whose lookups gives a match.
LimitsFor(tracks) ==
    IF tracks = Prefix(PoolPlaylist, PoolTracks) THEN {MaxLimit} ELSE -1..MaxLimit

\* A goroutine that has not been started, and one that has ended.
NotStarted == [pc |-> 0, lyrics |-> "", data |-> NoLyricsData, score |-> 0]

Workers == DOMAIN msW

Ended == 145

\* The goroutines between `semaphore <- struct{}{}` and `<-semaphore`.
InFlight == {w \in Workers : msW[w].pc \in {172, 180, 197, 229, 133, 136, 137, 142, 124}}

\* A send on the buffered channel that never blocks.
SemaphoreHasRoomAlways(n) == TRUE

\* A semaphore made without buffer, make(chan struct{}): no send on it proceeds,
\* as nothing receives before a send.
SemaphoreHasRoomUnbuffered(n) == FALSE

\* semaphore <- struct{}{} proceeds when the buffer has room.
SemaphoreHasRoom(n) == n < SemaphoreCap

\* A Wait that does not wait.
WaitReturnsAtOnce(n) == TRUE

\* wg.Wait() returns when the counter is zero.
WaitReturns(n) == n = 0

\* A return without the truncation.
TopMatchesAll(recs, limit) == recs

\* if len(recommendations) > limit { recommendations = recommendations[:limit] },
\* for limit >= 0; MatchReturn has the panic of the slice expression on a negative limit.
TopMatches(recs, limit) == IF Len(recs) > limit THEN SubSeq(recs, 1, limit) ELSE recs

MSIdle ==
    /\ msMood = NoMood
    /\ msTracks = <<>>
    /\ msLimit = 0
    /\ msPc = Idle
    /\ msI = 1
    /\ msWg = 0
    /\ msSem = 0
    /\ msMutex = 0
    /\ msRecs = <<>>
    /\ msW = <<>>
    /\ msCache = <<>>
    /\ msResult = <<>>
    /\ msPrev = <<"none">>

\* mood.New, then a call MatchSongsToMood(mood, userTracks, limit) at its first line.
MSInit ==
    /\ msMood \in UserMoods
    /\ msTracks \in CandidateLists
    /\ msLimit \in LimitsFor(msTracks)
    /\ msPc = <<"MatchSongsToMood", 114>>
    /\ msI = 1
    /\ msWg = 0
    /\ msSem = 0
    /\ msMutex = 0
    /\ msRecs = <<>>
    /\ msW = [i \in 1..Len(msTracks) |-> NotStarted]
    /\ msCache = <<>>
    /\ msResult = <<>>
    /\ msPrev = <<"none">>

\* The long list with one candidate more than the semaphore holds.
OverflowList == Prefix(PoolPlaylist, SemaphoreCap + 1)

\* mood.New, then a call of MatchSongsToMood on the first tracks of a playlist,
\* or on the long list with the largest limit: all its goroutines are started.
MSFairInit ==
    /\ msMood \in UserMoods
    /\ msTracks \in {Prefix(pl, FairTracks) : pl \in Playlists} \cup {OverflowList}
    /\ msLimit \in IF msTracks = OverflowList THEN {MaxLimit} ELSE -1..MaxLimit
    /\ msPc = <<"MatchSongsToMood", 114>>
    /\ msI = 1
    /\ msWg = 0
    /\ msSem = 0
    /\ msMutex = 0
    /\ msRecs = <<>>
    /\ msW = [i \in 1..Len(msTracks) |-> NotStarted]
    /\ msCache = <<>>
    /\ msResult = <<>>
    /\ msPrev = <<"none">>

\* for _, track := range userTracks { if len(recommendations) >= limit { break }.
\* The read of len(recommendations) is not synchronized with the appends of the
\* goroutines: it yields the current length or one the slice had before.
MatchLoop ==
    /\ msPc = <<"MatchSongsToMood", 114>>
    /\ IF msI > Len(msTracks)
         THEN msPc' = <<"MatchSongsToMood", 147>>
         ELSE \E n \in 0..Len(msRecs) :
                msPc' = IF n >= msLimit THEN <<"MatchSongsToMood", 147>>
                        ELSE <<"MatchSongsToMood", 119>>
    /\ UNCHANGED <<msMood, msTracks, msLimit, msI, msWg, msSem, msMutex, msRecs, msW,
                   msCache, msResult, msPrev>>
    /\ UNCHANGED <<clock, npVars, phVars, cmVars, hsVars, cpVars, mrVars, chVars, dmVars, glVars>>

\* wg.Add(1); go func(t models.UnifiedTrack) {...}(track)
MatchSpawn ==
    /\ msPc = <<"MatchSongsToMood", 119>>
    /\ msWg' = msWg + 1
    /\ msW' = [msW EXCEPT ![msI].pc = 123]
    /\ msI' = msI + 1
    /\ msPc' = <<"MatchSongsToMood", 114>>
    /\ UNCHANGED <<msMood, msTracks, msLimit, msSem, msMutex, msRecs, msCache, msResult, msPrev>>
    /\ UNCHANGED <<clock, npVars, phVars, cmVars, hsVars, cpVars, mrVars, chVars, dmVars, glVars>>

\* semaphore <- struct{}{}
WorkerAcquire(w) ==
    /\ msW[w].pc = 123
    /\ SemaphoreHasRoom(msSem)
    /\ msSem' = msSem + 1
    /\ msW' = [msW EXCEPT ![w].pc = 172]
    /\ UNCHANGED <<msMood, msTracks, msLimit, msPc, msI, msWg, msMutex, msRecs, msCache,
                   msResult, msPrev>>
    /\ UNCHANGED <<clock, npVars, phVars, cmVars, hsVars, cpVars, mrVars, chVars, dmVars, glVars>>

\* GetLyricsWithMood, lines 170 to 177: the cache lookup under the read lock.
WorkerCacheLookup(w) ==
    /\ msW[w].pc = 172
    /\ LET cacheKey == CacheKey(msTracks[w].Name, msTracks[w].Artist)
       IN  IF cacheKey \in DOMAIN msCache
           THEN msW' = [msW EXCEPT ![w].pc = 133, ![w].data = msCache[cacheKey]]
           ELSE msW' = [msW EXCEPT ![w].pc = 180]
    /\ UNCHANGED <<msMood, msTracks, msLimit, msPc, msI, msWg, msSem, msMutex, msRecs,
                   msCache, msResult, msPrev>>
    /\ UNCHANGED <<clock, npVars, phVars, cmVars, hsVars, cpVars, mrVars, chVars, dmVars, glVars>>

\* GetLyricsWithMood, lines 180 to 183: the goroutine waits for
\* geniusService.GetLyrics; on an error it returns (line 129) to its deferred
\* calls.
WorkerFetch(w) ==
    /\ msW[w].pc = 180
    /\ LET got == GeniusGetLyrics(msTracks[w].Name, msTracks[w].Artist)
       IN  IF LookupFailed(got)
           THEN msW' = [msW EXCEPT ![w].pc = 124]
           ELSE msW' = [msW EXCEPT ![w].pc = 197, ![w].lyrics = got.lyrics]
    /\ UNCHANGED <<msMood, msTracks, msLimit, msPc, msI, msWg, msSem, msMutex, msRecs,
                   msCache, msResult, msPrev>>
    /\ UNCHANGED <<clock, npVars, phVars, cmVars, hsVars, cpVars, mrVars, chVars, dmVars, glVars>>

\* GetLyricsWithMood, lines 197 to 226: the goroutine waits for
\* aiService.GenerateResponse and builds the record; on an error it returns
\* (line 129) to its deferred calls.
WorkerAnalyze(w) ==
    /\ msW[w].pc = 197
    /\ LET result == AnalyzeLyricsMood(msW[w].lyrics)
       IN  IF LookupFailed(result)
           THEN msW' = [msW EXCEPT ![w].pc = 124]
           ELSE msW' = [msW EXCEPT ![w].pc = 229, ![w].data = result]
    /\ UNCHANGED <<msMood, msTracks, msLimit, msPc, msI, msWg, msSem, msMutex, msRecs,
                   msCache, msResult, msPrev>>
    /\ UNCHANGED <<clock, npVars, phVars, cmVars, hsVars, cpVars, mrVars, chVars, dmVars, glVars>>

\* GetLyricsWithMood, lines 229 to 233: s.lyricsCache[cacheKey] = result under the lock.
WorkerCacheStore(w) ==
    /\ msW[w].pc = 229
    /\ LET cacheKey == CacheKey(msTracks[w].Name, msTracks[w].Artist)
       IN  msCache' = [k \in DOMAIN msCache \cup {cacheKey} |->
                         IF k = cacheKey THEN msW[w].data ELSE msCache[k]]
    /\ msW' = [msW EXCEPT ![w].pc = 133]
    /\ UNCHANGED <<msMood, msTracks, msLimit, msPc, msI, msWg, msSem, msMutex, msRecs,
                   msResult, msPrev>>
    /\ UNCHANGED <<clock, npVars, phVars, cmVars, hsVars, cpVars, mrVars, chVars, dmVars, glVars>>

\* matchScore := s.calculateMoodMatch(...); if matchScore > 0.5 {
WorkerScore(w) ==
    /\ msW[w].pc = 133
    /\ LET matchScore == calculateMoodMatch(msMood, msW[w].data.MoodAnalysis)
       IN  msW' = [msW EXCEPT ![w].score = matchScore,
                              ![w].pc = IF matchScore > MatchThreshold THEN 136 ELSE 124]
    /\ UNCHANGED <<msMood, msTracks, msLimit, msPc, msI, msWg, msSem, msMutex, msRecs,
                   msCache, msResult, msPrev>>
    /\ UNCHANGED <<clock, npVars, phVars, cmVars, hsVars, cpVars, mrVars, chVars, dmVars, glVars>>

\* mutex.Lock()
WorkerLock(w) ==
    /\ msW[w].pc = 136
    /\ msMutex = 0
    /\ msMutex' = w
    /\ msW' = [msW EXCEPT ![w].pc = 137]
    /\ UNCHANGED <<msMood, msTracks, msLimit, msPc, msI, msWg, msSem, msRecs, msCache,
                   msResult, msPrev>>
    /\ UNCHANGED <<clock, npVars, phVars, cmVars, hsVars, cpVars, mrVars, chVars, dmVars, glVars>>

\* recommendations = append(recommendations, ...)
WorkerAppend(w) ==
    /\ msW[w].pc = 137
    /\ msRecs' = Append(msRecs, Recommendation(msTracks[w], msW[w].score, msMood, msW[w].data))
    /\ msW' = [msW EXCEPT ![w].pc = 142]
    /\ UNCHANGED <<msMood, msTracks, msLimit, msPc, msI, msWg, msSem, msMutex, msCache,
                   msResult, msPrev>>
    /\ UNCHANGED <<clock, npVars, phVars, cmVars, hsVars, cpVars, mrVars, chVars, dmVars, glVars>>

\* mutex.Unlock()
WorkerUnlock(w) ==
    /\ msW[w].pc = 142
    /\ msMutex' = 0
    /\ msW' = [msW EXCEPT ![w].pc = 124]
    /\ UNCHANGED <<msMood, msTracks, msLimit, msPc, msI, msWg, msSem, msRecs, msCache,
                   msResult, msPrev>>
    /\ UNCHANGED <<clock, npVars, phVars, cmVars, hsVars, cpVars, mrVars, chVars, dmVars, glVars>>

\* The deferred func() { <-semaphore }().
WorkerRelease(w) ==
    /\ msW[w].pc = 124
    /\ msSem' = msSem - 1
    /\ msW' = [msW EXCEPT ![w].pc = 121]
    /\ UNCHANGED <<msMood, msTracks, msLimit, msPc, msI, msWg, msMutex, msRecs, msCache,
                   msResult, msPrev>>
    /\ UNCHANGED <<clock, npVars, phVars, cmVars, hsVars, cpVars, mrVars, chVars, dmVars, glVars>>

\* The deferred wg.Done(); the goroutine ends.
WorkerDone(w) ==
    /\ msW[w].pc = 121
    /\ msWg' = msWg - 1
    /\ msW' = [msW EXCEPT ![w].pc = Ended, ![w].data = NoLyricsData]
    /\ UNCHANGED <<msMood, msTracks, msLimit, msPc, msI, msSem, msMutex, msRecs, msCache,
                   msResult, msPrev>>
    /\ UNCHANGED <<clock, npVars, phVars, cmVars, hsVars, cpVars, mrVars, chVars, dmVars, glVars>>

\* wg.Wait()
MatchWait ==
    /\ msPc = <<"MatchSongsToMood", 147>>
    /\ WaitReturns(msWg)
    /\ msPc' = <<"MatchSongsToMood", 151>>
    /\ UNCHANGED <<msMood, msTracks, msLimit, msI, msWg, msSem, msMutex, msRecs, msW,
                   msCache, msResult, msPrev>>
    /\ UNCHANGED <<clock, npVars, phVars, cmVars, hsVars, cpVars, mrVars, chVars, dmVars, glVars>>

\* The sort, lines 151 to 157.
MatchSort ==
    /\ msPc = <<"MatchSongsToMood", 151>>
    /\ msRecs' = SortByScore(msRecs)
    /\ msPc' = <<"MatchSongsToMood", 160>>
    /\ UNCHANGED <<msMood, msTracks, msLimit, msI, msWg, msSem, msMutex, msW, msCache,
                   msResult, msPrev>>
    /\ UNCHANGED <<clock, npVars, phVars, cmVars, hsVars, cpVars, mrVars, chVars, dmVars, glVars>>

\* Lines 160 to 164: the truncation and the return. With a negative limit the
\* slice expression recommendations[:limit] panics.
MatchReturn ==
    /\ msPc = <<"MatchSongsToMood", 160>>
    /\ IF msLimit < 0 /\ Len(msRecs) > msLimit
         THEN /\ msPc' = <<"panic", 161>>
              /\ UNCHANGED <<msRecs, msResult>>
         ELSE /\ msRecs' = TopMatches(msRecs, msLimit)
              /\ msResult' = msRecs'
              /\ msPc' = <<"returned", 164>>
    /\ UNCHANGED <<msMood, msTracks, msLimit, msI, msWg, msSem, msMutex, msW, msCache, msPrev>>
    /\ UNCHANGED <<clock, npVars, phVars, cmVars, hsVars, cpVars, mrVars, chVars, dmVars, glVars>>

\* The caller calls MatchSongsToMood again with the same arguments, on the same
\* service (the cache stays).
MatchAgain ==
    /\ msPc = <<"returned", 164>>
    /\ msPrev = <<"none">>
    /\ \A w \in Workers : msW[w].pc \in {0, Ended}
    /\ msPrev' = <<"returned", msResult>>
    /\ msPc' = <<"MatchSongsToMood", 114>>
    /\ msI' = 1
    /\ msRecs' = <<>>
    /\ msResult' = <<>>
    /\ msW' = [w \in Workers |-> NotStarted]
    /\ UNCHANGED <<msMood, msTracks, msLimit, msWg, msSem, msMutex, msCache>>
    /\ UNCHANGED <<clock, npVars, phVars, cmVars, hsVars, cpVars, mrVars, chVars, dmVars, glVars>>

NextMatchOnce ==
    \/ MatchLoop
    \/ MatchSpawn
    \/ \E w \in Workers : WorkerAcquire(w)
    \/ \E w \in Workers : WorkerCacheLookup(w)
    \/ \E w \in Workers : WorkerFetch(w)
    \/ \E w \in Workers : WorkerAnalyze(w)
    \/ \E w \in Workers : WorkerCacheStore(w)
    \/ \E w \in Workers : WorkerScore(w)
    \/ \E w \in Workers : WorkerLock(w)
    \/ \E w \in Workers : WorkerAppend(w)
    \/ \E w \in Workers : WorkerUnlock(w)
    \/ \E w \in Workers : WorkerRelease(w)
    \/ \E w \in Workers : WorkerDone(w)
    \/ MatchWait
    \/ MatchSort
    \/ MatchReturn

\* ------------------------------------------------------------- GetLyricsWithMood
\* The (trackName, artistName) pairs the callers ask for.
GLNames == {"Hurt", "HURT", "Joy"}

GLArtists == {"Cash"}

\* What geniusService.GetLyrics may answer at one invocation: an error or lyrics.
\* The provider is free to answer differently from one invocation to the next.
GeniusAnswers ==
    {[err |-> TRUE, lyrics |-> ""]} \cup
    {[err |-> FALSE, lyrics |-> l] : l \in {"lyrics of hurt", "lyrics of joy"}}

\* What aiService.GenerateResponse may answer on the mood prompt of `lyrics`: an
\* error, a text that is no JSON, or the JSON of the analysis of the lyrics.
AIAnswers(lyrics) ==
    {AIGenerateResponse(lyrics), AIGenerateResponse("lyrics of static"), AIGenerateResponse("")}

\* Lines 203 to 226: the parsed analysis, or the fallback one, and the record.
LyricsRecord(lyrics, resp) ==
    LET analysis == IF resp.kind = "json" THEN resp.json
                    ELSE Analysis("calm", 500, <<"uncertain">>, <<"general">>)
    IN  [err |-> FALSE, Lyrics |-> lyrics,
         MoodAnalysis |-> [PrimaryMood |-> analysis.PrimaryMood,
                           MoodScore |-> analysis.MoodScore,
                           EmotionTags |-> analysis.EmotionTags],
         Themes |-> analysis.Themes]

\* return nil, fmt.Errorf(...)
GLError == NoLyricsData

NoArg == [name |-> "", artist |-> ""]

GLKey(p) == CacheKey(glArg[p].name, glArg[p].artist)

\* The track name and the artist of the call, each lower-cased.
GLLowerPair(p) == <<ToLower(glArg[p].name), ToLower(glArg[p].artist)>>

\* The lines at which GetLyricsWithMood returns.
GLReturnLines == {175, 182, 199, 233}

GLAtReturn(p) == glPc[p][1] = "GetLyricsWithMood" /\ glPc[p][2] \in GLReturnLines

\* The service of mood.New, no call of GetLyricsWithMood in progress.
GLInit ==
    /\ glPc = [p \in Clients |-> Idle]
    /\ glArg = [p \in Clients |-> NoArg]
    /\ glLyrics = [p \in Clients |-> ""]
    /\ glRet = [p \in Clients |-> GLError]
    /\ glInvoked = [p \in Clients |-> 0]
    /\ glSeen = [p \in Clients |-> {}]
    /\ glHist = {}
    /\ glWriter = 0
    /\ glReaders = {}
    /\ glCalls = 0
    /\ glRetry = [p \in Clients |-> FALSE]
    /\ glCacheFor = << >>

\* The last call of some caller was for the key of (name, artist) and returned an
\* error, and the cache has no record for the key.
GLFailedBefore(name, artist) ==
    /\ CacheKey(name, artist) \notin DOMAIN msCache
    /\ \E r \in Clients :
          /\ glPc[r] = Idle
          /\ glArg[r] # NoArg
          /\ GLKey(r) = CacheKey(name, artist)
          /\ glRet[r] = GLError

\* A caller enters GetLyricsWithMood(trackName, artistName), line 170.
GLCall(p, name, artist) ==
    /\ glPc[p] = Idle
    /\ glCalls < MaxLookups
    /\ glCalls' = glCalls + 1
    /\ glArg' = [glArg EXCEPT ![p] = [name |-> name, artist |-> artist]]
    /\ glPc' = [glPc EXCEPT ![p] = <<"GetLyricsWithMood", 172>>]
    /\ glSeen' = [glSeen EXCEPT ![p] = {h[2] : h \in {g \in glHist : g[1] = CacheKey(name, artist)}}]
    /\ glInvoked' = [glInvoked EXCEPT ![p] = 0]
    /\ glRet' = [glRet EXCEPT ![p] = GLError]
    /\ glLyrics' = [glLyrics EXCEPT ![p] = ""]
    /\ glRetry' = [glRetry EXCEPT ![p] = GLFailedBefore(name, artist)]
    /\ UNCHANGED <<glHist, glWriter, glReaders, msCache, glCacheFor>>
    /\ UNCHANGED msCallVars
    /\ UNCHANGED <<clock, npVars, phVars, cmVars, hsVars, cpVars, mrVars, chVars, dmVars>>

\* s.cacheMutex.RLock()
GLRLock(p) ==
    /\ glPc[p] = <<"GetLyricsWithMood", 172>>
    /\ glWriter = 0
    /\ glReaders' = glReaders \cup {p}
    /\ glPc' = [glPc EXCEPT ![p] = <<"GetLyricsWithMood", 173>>]
    /\ UNCHANGED <<glArg, glLyrics, glRet, glInvoked, glSeen, glHist, glWriter, glCalls, msCache, glRetry, glCacheFor>>
    /\ UNCHANGED msCallVars
    /\ UNCHANGED <<clock, npVars, phVars, cmVars, hsVars, cpVars, mrVars, chVars, dmVars>>

\* Lines 173 to 177: the lookup, and RUnlock on either branch.
GLLookup(p) ==
    /\ glPc[p] = <<"GetLyricsWithMood", 173>>
    /\ glReaders' = glReaders \ {p}
    /\ IF GLKey(p) \in DOMAIN msCache
         THEN /\ glRet' = [glRet EXCEPT ![p] = msCache[GLKey(p)]]
              /\ glPc' = [glPc EXCEPT ![p] = <<"GetLyricsWithMood", 175>>]
         ELSE /\ glPc' = [glPc EXCEPT ![p] = <<"GetLyricsWithMood", 180>>]
              /\ UNCHANGED glRet
    /\ UNCHANGED <<glArg, glLyrics, glInvoked, glSeen, glHist, glWriter, glCalls, msCache, glRetry, glCacheFor>>
    /\ UNCHANGED msCallVars
    /\ UNCHANGED <<clock, npVars, phVars, cmVars, hsVars, cpVars, mrVars, chVars, dmVars>>

\* A call that goes on to the analysis whatever GetLyrics returned.
GLAfterGeniusIgnoresError(err) == 197

\* if err != nil { return nil, ... }, lines 181 to 183: the line the call goes to
\* with the err of GetLyrics.
GLAfterGenius(err) == IF err THEN 182 ELSE 197

\* lyrics, err := s.geniusService.GetLyrics(trackName, artistName), lines 180 to 183.
GLGenius(p) ==
    /\ glPc[p] = <<"GetLyricsWithMood", 180>>
    /\ glInvoked' = [glInvoked EXCEPT ![p] = @ + 1]
    /\ \E got \in GeniusAnswers :
          /\ glLyrics' = [glLyrics EXCEPT ![p] = got.lyrics]
          /\ glPc' = [glPc EXCEPT ![p] = <<"GetLyricsWithMood", GLAfterGenius(got.err)>>]
    /\ UNCHANGED <<glArg, glRet, glSeen, glHist, glWriter, glReaders, glCalls, msCache, glRetry, glCacheFor>>
    /\ UNCHANGED msCallVars
    /\ UNCHANGED <<clock, npVars, phVars, cmVars, hsVars, cpVars, mrVars, chVars, dmVars>>

\* response, err := s.aiService.GenerateResponse(moodPrompt), and lines 198 to 226.
GLAnalyze(p) ==
    /\ glPc[p] = <<"GetLyricsWithMood", 197>>
    /\ glInvoked' = [glInvoked EXCEPT ![p] = @ + 1]
    /\ \E resp \in AIAnswers(glLyrics[p]) :
          IF resp.kind = "error"
          THEN /\ glPc' = [glPc EXCEPT ![p] = <<"GetLyricsWithMood", 199>>]
               /\ UNCHANGED glRet
          ELSE /\ glRet' = [glRet EXCEPT ![p] = LyricsRecord(glLyrics[p], resp)]
               /\ glPc' = [glPc EXCEPT ![p] = <<"GetLyricsWithMood", 229>>]
    /\ UNCHANGED <<glArg, glLyrics, glSeen, glHist, glWriter, glReaders, glCalls, msCache, glRetry, glCacheFor>>
    /\ UNCHANGED msCallVars
    /\ UNCHANGED <<clock, npVars, phVars, cmVars, hsVars, cpVars, mrVars, chVars, dmVars>>

\* s.cacheMutex.Lock()
GLLock(p) ==
    /\ glPc[p] = <<"GetLyricsWithMood", 229>>
    /\ glWriter = 0
    /\ glReaders = {}
    /\ glWriter' = p
    /\ glPc' = [glPc EXCEPT ![p] = <<"GetLyricsWithMood", 230>>]
    /\ UNCHANGED <<glArg, glLyrics, glRet, glInvoked, glSeen, glHist, glReaders, glCalls, msCache, glRetry, glCacheFor>>
    /\ UNCHANGED msCallVars
    /\ UNCHANGED <<clock, npVars, phVars, cmVars, hsVars, cpVars, mrVars, chVars, dmVars>>

\* s.lyricsCache[cacheKey] = result; s.cacheMutex.Unlock()
GLStore(p) ==
    /\ glPc[p] = <<"GetLyricsWithMood", 230>>
    /\ msCache' = [k \in DOMAIN msCache \cup {GLKey(p)} |->
                     IF k = GLKey(p) THEN glRet[p] ELSE msCache[k]]
    /\ glCacheFor' = [k \in DOMAIN glCacheFor \cup {GLKey(p)} |->
                        IF k = GLKey(p) THEN GLLowerPair(p) ELSE glCacheFor[k]]
    /\ glWriter' = 0
    /\ glPc' = [glPc EXCEPT ![p] = <<"GetLyricsWithMood", 233>>]
    /\ glRetry' = [q \in Clients |-> glRetry[q] /\ (q = p \/ GLKey(q) # GLKey(p))]
    /\ UNCHANGED <<glArg, glLyrics, glRet, glInvoked, glSeen, glHist, glReaders, glCalls>>
    /\ UNCHANGED msCallVars
    /\ UNCHANGED <<clock, npVars, phVars, cmVars, hsVars, cpVars, mrVars, chVars, dmVars>>

\* The return statement of lines 175, 182, 199 or 233: the caller has the
\* record, or the error.
GLReturn(p) ==
    /\ GLAtReturn(p)
    /\ glHist' = IF glPc[p][2] \in {175, 233}
                 THEN glHist \cup {<<GLKey(p), glRet[p]>>} ELSE glHist
    /\ glPc' = [glPc EXCEPT ![p] = Idle]
    /\ UNCHANGED <<glArg, glLyrics, glRet, glInvoked, glSeen, glWriter, glReaders, glCalls, msCache, glRetry, glCacheFor>>
    /\ UNCHANGED msCallVars
    /\ UNCHANGED <<clock, npVars, phVars, cmVars, hsVars, cpVars, mrVars, chVars, dmVars>>

NextLyricsCache ==
    \/ \E p \in Clients, name \in GLNames, artist \in GLArtists : GLCall(p, name, artist)
    \/ \E p \in Clients : GLRLock(p)
    \/ \E p \in Clients : GLLookup(p)
    \/ \E p \in Clients : GLGenius(p)
    \/ \E p \in Clients : GLAnalyze(p)
    \/ \E p \in Clients : GLLock(p)
    \/ \E p \in Clients : GLStore(p)
    \/ \E p \in Clients : GLReturn(p)

\* The (trackName, artistName) pairs of callers whose title or artist holds a
\* hyphen.
GLPairs == {<<"Up-Town", "Girl">>, <<"UP", "Town-Girl">>}

NextLyricsKeys ==
    \/ \E p \in Clients, pair \in GLPairs : glCalls < MaxKeyCalls /\ GLCall(p, pair[1], pair[2])
    \/ \E p \in Clients : GLRLock(p)
    \/ \E p \in Clients : GLLookup(p)
    \/ \E p \in Clients : GLGenius(p)
    \/ \E p \in Clients : GLAnalyze(p)
    \/ \E p \in Clients : GLLock(p)
    \/ \E p \in Clients : GLStore(p)
    \/ \E p \in Clients : GLReturn(p)

\* ------------------------------------------------------------- DetectMood
\* var MoodKeywords
MoodKeywords ==
    [sad |-> <<"cry", "tears", "broken", "hurt", "pain", "lost", "miss", "gone", "alone", "empty">>,
     happy |-> <<"joy", "smile", "laugh", "bright", "sunshine", "celebrate", "love", "wonderful",
                 "amazing", "blessed">>,
     angry |-> <<"rage", "fury", "hate", "mad", "pissed", "scream", "fight", "burn", "destroy",
                 "revenge">>,
     lonely |-> <<"alone", "nobody", "isolated", "forgotten", "abandoned", "solitary", "empty",
                  "belong", "disconnected">>,
     anxious |-> <<"worry", "fear", "nervous", "panic", "stress", "overwhelmed", "restless",
                   "uncertain", "doubt">>,
     nostalgic |-> <<"remember", "memories", "past", "used to", "once", "old days", "reminisce",
                     "looking back", "childhood">>,
     energetic |-> <<"pump", "hype", "energy", "power", "strength", "unstoppable", "fire", "ready",
                     "go", "motivation">>,
     calm |-> <<"peace", "quiet", "serene", "tranquil", "relax", "breathe", "gentle", "soft",
                "still", "harmony">>]

MoodAnalysis(mood, score, tags) == [PrimaryMood |-> mood, MoodScore |-> score, EmotionTags |-> tags]

\* The messages given to DetectMood. In the second one three keywords of sad
\* and two of lonely occur; in the third, three of sad only.
Messages ==
    {"hello there", "I am alone and empty and lost", "I cry, my tears, so much PAIN", "tears"}

\* What aiService.GenerateResponse may answer on the mood prompt: an error, a
\* text that is no JSON, or the JSON of some analysis.
MoodAnswers ==
    {[kind |-> "error", json |-> NoMood],
     [kind |-> "text", json |-> NoMood],
     [kind |-> "json", json |-> MoodAnalysis("happy", 900, <<"joyful">>)],
     [kind |-> "json", json |-> MoodAnalysis("ecstatic", 1500, <<>>)]}

\* matchCount of lines 78 to 83 for one mood.
MatchCount(lowerMessage, mood) ==
    Cardinality({k \in DOMAIN MoodKeywords[mood] : Contains(lowerMessage, MoodKeywords[mood][k])})

\* float64(matchCount) / float64(len(keywords)), in thousandths.
KeywordScore(lowerMessage, mood) ==
    (MatchCount(lowerMessage, mood) * 1000) \div Len(MoodKeywords[mood])

\* matchCount > 0 and score > 0.2, exactly: matchCount / len > 1 / 5.
Qualifies(lowerMessage, mood) ==
    /\ MatchCount(lowerMessage, mood) > 0
    /\ 5 * MatchCount(lowerMessage, mood) > Len(MoodKeywords[mood])

\* Lines 97 to 102.
DefaultMood == MoodAnalysis("calm", 300, <<"neutral", "uncertain">>)

NoDetect == [err |-> FALSE, analysis |-> NoMood]

\* No call of DetectMood.
DMIdle ==
    /\ dmMsg = ""
    /\ dmPc = Idle
    /\ dmResp = "none"
    /\ dmLeft = {}
    /\ dmRet = NoDetect
    /\ dmPrev = <<"none">>

\* A call DetectMood(message) at its first line.
DMInit ==
    /\ dmMsg \in Messages
    /\ dmPc = <<"DetectMood", 57>>
    /\ dmResp = "none"
    /\ dmLeft = {}
    /\ dmRet = NoDetect
    /\ dmPrev = <<"none">>

\* Lines 57 to 69: the AI's answer; the error return, the parsed analysis, or
\* the call of fallbackMoodDetection, whose range loop starts with every mood
\* of the table still to visit.
DMGenerate ==
    /\ dmPc = <<"DetectMood", 57>>
    /\ \E resp \in MoodAnswers :
          /\ dmResp' = resp.kind
          /\ CASE resp.kind = "error" ->
                    /\ dmRet' = [err |-> TRUE, analysis |-> NoMood]
                    /\ dmPc' = <<"DetectMood", 59>>
                    /\ UNCHANGED dmLeft
               [] resp.kind = "text" ->
                    /\ dmLeft' = DOMAIN MoodKeywords
                    /\ dmPc' = <<"fallbackMoodDetection", 77>>
                    /\ UNCHANGED dmRet
               [] OTHER ->
                    /\ dmRet' = [err |-> FALSE, analysis |-> resp.json]
                    /\ dmPc' = <<"DetectMood", 69>>
                    /\ UNCHANGED dmLeft
    /\ UNCHANGED <<dmMsg, dmPrev>>
    /\ UNCHANGED <<clock, npVars, phVars, msVars, cmVars, hsVars, cpVars, mrVars, chVars, glVars>>

\* One iteration of `for mood, keywords := range MoodKeywords`, lines 77 to 95.
\* The order in which range visits a map is not specified: the next mood is
\* any mood not visited yet.
DMRange ==
    /\ dmPc = <<"fallbackMoodDetection", 77>>
    /\ dmLeft # {}
    /\ \E mood \in dmLeft :
          IF Qualifies(ToLower(dmMsg), mood)
          THEN /\ dmRet' = [err |-> FALSE,
                            analysis |-> MoodAnalysis(mood, KeywordScore(ToLower(dmMsg), mood),
                                                      RelatedMoods[mood])]
               /\ dmPc' = <<"DetectMood", 66>>
               /\ dmLeft' = {}
          ELSE /\ dmLeft' = dmLeft \ {mood}
               /\ UNCHANGED <<dmRet, dmPc>>
    /\ UNCHANGED <<dmMsg, dmResp, dmPrev>>
    /\ UNCHANGED <<clock, npVars, phVars, msVars, cmVars, hsVars, cpVars, mrVars, chVars, glVars>>

\* The loop ended without a return: lines 97 to 102.
DMDefault ==
    /\ dmPc = <<"fallbackMoodDetection", 77>>
    /\ dmLeft = {}
    /\ dmRet' = [err |-> FALSE, analysis |-> DefaultMood]
    /\ dmPc' = <<"DetectMood", 66>>
    /\ UNCHANGED <<dmMsg, dmResp, dmLeft, dmPrev>>
    /\ UNCHANGED <<clock, npVars, phVars, msVars, cmVars, hsVars, cpVars, mrVars, chVars, glVars>>

\* The return statement of line 59, 66 or 69.
DMReturn ==
    /\ dmPc[1] = "DetectMood"
    /\ dmPc[2] \in {59, 66, 69}
    /\ dmPc' = <<"returned", dmPc[2]>>
    /\ UNCHANGED <<dmMsg, dmResp, dmLeft, dmRet, dmPrev>>
    /\ UNCHANGED <<clock, npVars, phVars, msVars, cmVars, hsVars, cpVars, mrVars, chVars, glVars>>

\* The caller calls DetectMood again with the same message.
DMAgain ==
    /\ dmPc[1] = "returned"
    /\ dmPrev = <<"none">>
    /\ dmPrev' = <<"returned", dmPc[2], dmRet>>
    /\ dmPc' = <<"DetectMood", 57>>
    /\ dmResp' = "none"
    /\ dmRet' = NoDetect
    /\ UNCHANGED <<dmMsg, dmLeft>>
    /\ UNCHANGED <<clock, npVars, phVars, msVars, cmVars, hsVars, cpVars, mrVars, chVars, glVars>>

NextDetectMood ==
    \/ DMGenerate
    \/ DMRange
    \/ DMDefault
    \/ DMReturn
    \/ DMAgain

\* ------------------------------------------------------------- mood history
\* The users, moods and played-song lists given to SaveUserMoodHistory. The
\* mood is the primary mood DetectMood returned, which is the AI's text; the
\* song ids are the ids of the matched library tracks, empty for a track
\* without id.
HSUsers == {"default_user", "guest"}

HSMoods == {"sad", "sad|lonely"}

HSSongLists == {<<>>, <<"id1", "id2">>, <<"">>}

\* time.Now().Format(time.RFC3339)
FormatRFC3339(now) == "2025-01-01T00:00:0" \o ToString(now) \o "Z"

\* strings.Join(elems, sep)
RECURSIVE Join(_, _)
Join(elems, sep) ==
    IF Len(elems) = 0 THEN ""
    ELSE IF Len(elems) = 1 THEN elems[1]
    ELSE elems[1] \o sep \o Join(Tail(elems), sep)

\* strings.Split(s, sep) for a non-empty separator.
RECURSIVE Split(_, _)
Split(str, sep) ==
    IF ~Contains(str, sep) THEN <<str>>
    ELSE <<SplitHead(str, sep)>> \o Split(SplitRest(str, sep), sep)

\* fmt.Sprintf("%s|%s|%s\n", timestamp, mood, strings.Join(playedSongs, ",")), lines 305 to 308.
HistoryLine(now, mood, playedSongs) ==
    FormatRFC3339(now) \o "|" \o mood \o "|" \o Join(playedSongs, ",") \o "\n"

\* Lines 347 to 354: the lines the loop does not skip.
KeepsLine(line) == line # "" /\ Len(Split(line, "|")) = 3

UserMoodEntry(timestamp, mood, songs) ==
    [Timestamp |-> timestamp, DetectedMood |-> mood, PlayedSongs |-> songs]

\* Lines 351 to 365 for one line that is kept.
ParseLine(line) ==
    LET parts == Split(line, "|")
        at(i) == IF i <= Len(parts) THEN parts[i] ELSE ""
    IN  UserMoodEntry(at(1), at(2), IF at(3) # "" THEN Split(at(3), ",") ELSE <<>>)

\* Lines 343 to 366 over the lines from the i-th on.
RECURSIVE ParseLines(_, _)
ParseLines(lines, i) ==
    IF i > Len(lines) THEN <<>>
    ELSE IF KeepsLine(lines[i]) THEN <<ParseLine(lines[i])>> \o ParseLines(lines, i + 1)
    ELSE ParseLines(lines, i + 1)

\* ioutil.ReadFile and lines 343 to 368.
ParseHistory(content) == ParseLines(Split(content, "\n"), 1)

NoHistory == [user |-> "", entries |-> <<>>, err |-> ""]

OpenHistoryError == "failed to open history file"

WriteHistoryError == "failed to write history"

ReadHistoryError == "failed to read history"

\* The locals of a caller that is not in SaveUserMoodHistory.
NoSave == [user |-> "", mood |-> "", songs |-> <<>>, entry |-> "", call |-> 0]

\* The service of mood.New on an empty data directory.
HSIdle ==
    /\ hsFiles = << >>
    /\ hsSaved = [u \in HSUsers |-> <<>>]
    /\ hsRet = NoHistory
    /\ hsPrev = [u \in HSUsers |-> <<>>]
    /\ hsCalls = 0
    /\ hsPc = [p \in Clients |-> Idle]
    /\ hsArg = [p \in Clients |-> NoSave]

\* The entries the calls before this one returned without error, the last call
\* included.
HSRemember ==
    IF hsRet.user # "" /\ hsRet.err = "" THEN [hsPrev EXCEPT ![hsRet.user] = hsRet.entries]
    ELSE hsPrev

\* The file of userID after os.OpenFile with O_APPEND|O_CREATE and a write of
\* written at its end.
AppendToFile(userID, written) ==
    [u \in DOMAIN hsFiles \cup {userID} |->
        (IF u \in DOMAIN hsFiles THEN hsFiles[u] ELSE "") \o (IF u = userID THEN written ELSE "")]

\* The numbers of characters f.WriteString may have written when it fails,
\* fewer than the whole entry: none, the timestamp with its "|", or all but the
\* newline.
ShortWrites(entry) == {0, Index(entry, "|"), Len(entry) - 1}

\* The calls that returned nil with the call of saved among them, the call made
\* first coming first.
SavedInCallOrder(calls, saved) ==
    LET before == SelectSeq(calls, LAMBDA c : c.call < saved.call)
        after == SelectSeq(calls, LAMBDA c : c.call > saved.call)
    IN  before \o <<saved>> \o after

\* A caller enters SaveUserMoodHistory(userID, mood, playedSongs), lines 301
\* to 308: the entry is made with the time.Now() of line 306. The service has
\* no lock, so the calls of concurrent requests overlap from here on.
SaveUserMoodHistory(p, userID, mood, playedSongs) ==
    /\ hsPc[p][1] # "SaveUserMoodHistory"
    /\ hsCalls' = hsCalls + 1
    /\ hsArg' = [hsArg EXCEPT ![p] = [user |-> userID, mood |-> mood, songs |-> playedSongs,
                                      entry |-> HistoryLine(clock, mood, playedSongs),
                                      call |-> hsCalls + 1]]
    /\ hsPc' = [hsPc EXCEPT ![p] = <<"SaveUserMoodHistory", 311>>]
    /\ UNCHANGED <<hsFiles, hsSaved, hsRet, hsPrev>>

\* A call of SaveUserMoodHistory on the service.
HSSave(p, userID, mood, playedSongs) ==
    /\ hsCalls < MaxSaves
    /\ SaveUserMoodHistory(p, userID, mood, playedSongs)
    /\ UNCHANGED <<clock, npVars, phVars, msVars, cmVars, glVars, dmVars, chVars, mrVars, cpVars>>

\* SaveUserMoodHistory, lines 311 to 315: os.OpenFile fails and the call
\* returns the error, nothing written; or the file is opened for appending,
\* and is there from now on, empty when it was absent.
HSOpenFile(p) ==
    /\ hsPc[p] = <<"SaveUserMoodHistory", 311>>
    /\ \/ /\ hsRet' = [NoHistory EXCEPT !.err = OpenHistoryError]
          /\ hsPrev' = HSRemember
          /\ hsPc' = [hsPc EXCEPT ![p] = <<"returned", 313>>]
          /\ hsArg' = [hsArg EXCEPT ![p] = NoSave]
          /\ UNCHANGED hsFiles
       \/ /\ hsFiles' = AppendToFile(hsArg[p].user, "")
          /\ hsPc' = [hsPc EXCEPT ![p] = <<"SaveUserMoodHistory", 317>>]
          /\ UNCHANGED <<hsRet, hsPrev, hsArg>>
    /\ UNCHANGED <<hsSaved, hsCalls>>
    /\ UNCHANGED <<clock, npVars, phVars, msVars, cmVars, glVars, dmVars, chVars, mrVars, cpVars>>

\* SaveUserMoodHistory, lines 317 to 324: f.WriteString fails after having
\* written less than the whole entry, and the call returns the error; or the
\* entry is written and the call returns nil. The file is open with O_APPEND,
\* so what is written goes to the end the file has at the write, after what
\* other calls have written since line 311. compactHistoryIfNeeded does
\* nothing.
HSWriteString(p) ==
    /\ hsPc[p] = <<"SaveUserMoodHistory", 317>>
    /\ \/ \E n \in ShortWrites(hsArg[p].entry) :
             /\ hsFiles' = AppendToFile(hsArg[p].user, TakeFirst(hsArg[p].entry, n))
             /\ hsRet' = [NoHistory EXCEPT !.err = WriteHistoryError]
             /\ hsPc' = [hsPc EXCEPT ![p] = <<"returned", 318>>]
             /\ UNCHANGED hsSaved
       \/ /\ hsFiles' = AppendToFile(hsArg[p].user, hsArg[p].entry)
          /\ hsSaved' = [hsSaved EXCEPT ![hsArg[p].user] =
                             SavedInCallOrder(@, [call |-> hsArg[p].call, by |-> p,
                                                  mood |-> hsArg[p].mood, songs |-> hsArg[p].songs])]
          /\ hsRet' = NoHistory
          /\ hsPc' = [hsPc EXCEPT ![p] = <<"returned", 324>>]
    /\ hsPrev' = HSRemember
    /\ hsArg' = [hsArg EXCEPT ![p] = NoSave]
    /\ UNCHANGED hsCalls
    /\ UNCHANGED <<clock, npVars, phVars, msVars, cmVars, glVars, dmVars, chVars, mrVars, cpVars>>

\* GetUserMoodHistory(userID), lines 328 to 369: no entries when os.Stat says
\* the file does not exist (lines 332 to 334); nil and an error when
\* ioutil.ReadFile fails, the file being there or os.Stat having failed for
\* another reason (lines 337 to 340); else the entries parsed from the file.
\* A file is never removed, so the call returns what the file holds at one
\* moment, that of os.Stat when the file is absent and that of ioutil.ReadFile
\* otherwise, and is one step.
HSGet(userID) ==
    /\ \/ /\ userID \notin DOMAIN hsFiles
          /\ hsRet' = [user |-> userID, entries |-> <<>>, err |-> ""]
       \/ hsRet' = [user |-> userID, entries |-> <<>>, err |-> ReadHistoryError]
       \/ /\ userID \in DOMAIN hsFiles
          /\ hsRet' = [user |-> userID, entries |-> ParseHistory(hsFiles[userID]), err |-> ""]
    /\ hsPrev' = HSRemember
    /\ UNCHANGED <<hsFiles, hsSaved, hsCalls, hsPc, hsArg>>
    /\ UNCHANGED <<clock, npVars, phVars, msVars, cmVars, glVars, dmVars, chVars, mrVars, cpVars>>

NextMoodHistory ==
    \/ Tick
    \/ \E p \in Clients, u \in HSUsers, mood \in HSMoods, songs \in HSSongLists : HSSave(p, u, mood, songs)
    \/ \E p \in Clients : HSOpenFile(p)
    \/ \E p \in Clients : HSWriteString(p)
    \/ \E u \in HSUsers : HSGet(u)

\* ------------------------------------------------------------- processChatRequest
\* The queries given to processChatRequest (HandleChat rejects the empty one).
Queries ==
    {"play Hurt by Cash",
     "play a sad song by Adele",
     "can you play Hurt by Cash",
     "I want to hear my sad lyrics",
     "display the lyrics",
     "I feel like this song's lyrics are sad",
     "what do these lyrics mean",
     "what does the current song mean?",
     "tell me about the current song",
     "I am feeling lonely",
     "What is jazz music?",
     "What is artificial intelligence?"}

\* songRequestPatterns of isSongRequestQuery.
SongRequestPatterns ==
    <<"play ", "can you play", "find ", "search for", "put on ", "i want to hear",
      "i want to listen to", "show me ", "look for ", "get me ">>

isSongRequestQuery(query) == ContainsAny(ToLower(query), SongRequestPatterns)

\* emotionalKeywords and personalIndicators of containsEmotionalContent.
EmotionalKeywords ==
    <<"feel", "feeling", "mood", "emotion", "sad", "happy", "angry", "upset",
      "depressed", "anxious", "lonely", "alone", "stressed", "overwhelmed",
      "excited", "joy", "love", "hate", "frustrated", "confused", "lost",
      "hurt", "broken", "empty", "hopeless", "worried", "scared", "afraid",
      "nervous", "calm", "peaceful", "nostalgic", "miss", "remember",
      "belong", "disconnected", "isolated", "abandoned", "rejected",
      "won", "victory", "celebrate", "celebration", "achievement", "accomplished",
      "tournament", "competition", "winning", "winner">>

PersonalIndicators == <<"i ", "i'm", "i am", "me ", "my ", "feel", "feeling">>

\* The nested loops return true at the first keyword that occurs when some
\* indicator occurs too.
containsEmotionalContent(query) ==
    /\ ContainsAny(ToLower(query), EmotionalKeywords)
    /\ ContainsAny(ToLower(query), PersonalIndicators)

\* lyricsPatterns of isLyricsRelatedQuery.
LyricsPatterns ==
    <<"current song", "current track", "now playing", "playing now",
      "this song", "this track", "about the song", "about the track",
      "song mean", "track mean", "lyrics mean", "song about",
      "tell me about", "what does", "explain the", "meaning of">>

isLyricsRelatedQuery(query) ==
    Contains(ToLower(query), "lyric") \/ ContainsAny(ToLower(query), LyricsPatterns)

\* musicKeywords of isMusicRelatedQuery.
MusicKeywords ==
    <<"music", "song", "artist", "band", "album", "track",
      "genre", "musician", "singer", "composer", "producer",
      "concert", "performance", "instrument", "guitar", "piano",
      "drums", "vocal", "melody", "harmony", "rhythm",
      "beat", "tempo", "chord", "scale", "key",
      "recording", "studio", "label", "release", "single",
      "ep", "mixtape", "soundtrack", "cover", "remix",
      "acoustic", "electric", "classical", "jazz", "rock",
      "pop", "hip hop", "rap", "country", "folk",
      "blues", "metal", "punk", "indie", "electronic">>

\* A gate that lets every query through.
isMusicRelatedAlways(query) == TRUE

isMusicRelatedQuery(query) == ContainsAny(ToLower(query), MusicKeywords)

\* A dispatch that asks for emotional content before it asks for a song request.
ClassifyMoodFirst(query) ==
    IF containsEmotionalContent(query) THEN "handleMoodBasedQuery"
    ELSE IF isSongRequestQuery(query) THEN "handleSongRequest"
    ELSE IF isLyricsRelatedQuery(query) THEN "handleLyricsQuery"
    ELSE "handleGeneralQuery"

\* A dispatch that asks for a lyrics query before it asks for emotional content.
ClassifyLyricsFirst(query) ==
    IF isSongRequestQuery(query) THEN "handleSongRequest"
    ELSE IF isLyricsRelatedQuery(query) THEN "handleLyricsQuery"
    ELSE IF containsEmotionalContent(query) THEN "handleMoodBasedQuery"
    ELSE "handleGeneralQuery"

\* processChatRequest, lines 161 to 176: the handler the query is given to.
Classify(query) ==
    IF isSongRequestQuery(query) THEN "handleSongRequest"
    ELSE IF containsEmotionalContent(query) THEN "handleMoodBasedQuery"
    ELSE IF isLyricsRelatedQuery(query) THEN "handleLyricsQuery"
    ELSE "handleGeneralQuery"

Quotes == {"\"", "'"}

\* prefixes of extractSongRequest, line 318.
ByPrefixes ==
    <<"play ", "find ", "search for ", "put on ", "show me ", "look for ", "get me ">>

\* Lines 319 to 324: the first prefix of the list the song part starts with is
\* cut off.
RECURSIVE StripFirstPrefix(_, _)
StripFirstPrefix(songPart, k) ==
    IF k > Len(ByPrefixes) THEN songPart
    ELSE IF HasPrefix(songPart, ByPrefixes[k])
         THEN TrimSpace(DropFirst(songPart, Len(ByPrefixes[k])))
         ELSE StripFirstPrefix(songPart, k + 1)

\* songOnlyPatterns of extractSongRequest, lines 337 to 341.
SongOnlyPatterns ==
    <<"play ", "find ", "search for ", "put on ", "show me ", "look for ", "get me ",
      "can you play ", "i want to hear ", "i want to listen to ">>

SongQuery(song, artist) == [Query |-> song, Artist |-> artist]

\* Lines 343 to 358: the loop over songOnlyPatterns from the k-th on, and the
\* return of the whole query when no pattern gives a song.
RECURSIVE SongOnlyFrom(_, _)
SongOnlyFrom(query, k) ==
    IF k > Len(SongOnlyPatterns) THEN SongQuery(TrimSpace(query), "")
    ELSE IF HasPrefix(ToLower(query), SongOnlyPatterns[k])
         THEN LET rest == TrimSpace(DropFirst(ToLower(query), Len(SongOnlyPatterns[k])))
                  song == TrimSuffix(TrimSuffix(Trim(rest, Quotes), " please"), " song")
              IN  IF song # "" THEN SongQuery(song, "") ELSE SongOnlyFrom(query, k + 1)
         ELSE SongOnlyFrom(query, k + 1)

\* extractSongRequest: the song name and the artist, as a SongQuery.
extractSongRequest(query) ==
    LET lowerQuery == ToLower(query)
        songPart == Trim(StripFirstPrefix(TrimSpace(SplitHead(lowerQuery, " by ")), 1), Quotes)
        artistPart == Trim(TrimSpace(SplitRest(lowerQuery, " by ")), Quotes)
    IN  IF /\ Contains(lowerQuery, " by ")
           /\ ~Contains(SplitRest(lowerQuery, " by "), " by ")
           /\ songPart # ""
           /\ artistPart # ""
        THEN SongQuery(songPart, artistPart)
        ELSE SongOnlyFrom(query, 1)

\* A predefined suggestion of getGeneralMoodSuggestions; the score in thousandths.
Suggestion(id, name, artist, score) ==
    [Track |-> Song(id, name, artist), MoodScore |-> score, MatchReason |-> ""]

\* moodSuggestions of getGeneralMoodSuggestions, lines 491 to 670.
MoodSuggestions ==
    [lonely |->
        <<Suggestion("1mea3bSkSGXuIRvnydlB5b", "Somewhere I Belong", "Linkin Park", 950),
          Suggestion("4N3y2ChKKCG3zVCfyNiMQD", "Mad World", "Gary Jules", 900),
          Suggestion("u9HBEOlMgOtK8yXGKKMhRx", "The Sound of Silence", "Disturbed", 880)>>,
     sad |->
        <<Suggestion("2DjPkzR89MSYPGaWhK8uKQ", "Hurt", "Johnny Cash", 950),
          Suggestion("0SiQrCn2h2aKOEqz5Zxwow", "The Night We Met", "Lord Huron", 900)>>,
     happy |->
        <<Suggestion("3BxnGCLFNdLKgVgVz6Vn5H", "Good Life", "OneRepublic", 950),
          Suggestion("05wIrZSwuaVWhcv5FfqeJ0", "Walking on Sunshine", "Katrina and the Waves", 930),
          Suggestion("60nZcImufyMA1MKQY3dcCH", "Happy", "Pharrell Williams", 980),
          Suggestion("0BxE4FqsDD1Ot4YuBXwn8F", "Can't Stop the Feeling!", "Justin Timberlake", 960),
          Suggestion("32OlwWuMpZ6b0aN2RZOeMS", "Uptown Funk", "Mark Ronson ft. Bruno Mars", 940),
          Suggestion("1WkMMavIMc4JZ8cfMmxHkI", "Good as Hell", "Lizzo", 920),
          Suggestion("0CFuMybe6s77w6QQrJjW7d", "I'm Gonna Be (500 Miles)", "The Proclaimers", 900),
          Suggestion("5T8EDUDqKcs6OSOwEsfqG7", "Don't Stop Me Now", "Queen", 880),
          Suggestion("2RlgNHKcydI9sayD2Df2xp", "Mr. Blue Sky", "Electric Light Orchestra", 860),
          Suggestion("3PPogGhAUjr4FLGzEFGzJI", "Best Day of My Life", "American Authors", 840)>>,
     angry |->
        <<Suggestion("2OzEKCmOoWhyuB8nHi8xhv", "Break Stuff", "Limp Bizkit", 950),
          Suggestion("0yp7ORA8XPNO4kvNj5EYdx", "Bodies", "Drowning Pool", 920)>>]

\* The number of library matches asked of MatchSongsToMood.
LibraryLimit == 5

\* The number of general suggestions asked for.
SuggestionLimit == 10

\* getGeneralMoodSuggestions(mood, limit)
getGeneralMoodSuggestions(mood, limit) ==
    LET suggestions == IF mood \in DOMAIN MoodSuggestions THEN MoodSuggestions[mood]
                       ELSE MoodSuggestions["sad"]
    IN  IF Len(suggestions) > limit THEN SubSeq(suggestions, 1, limit) ELSE suggestions

\* responses of createEmpatheticResponse.
EmpatheticResponses ==
    [lonely |-> "I hear you're feeling disconnected right now. Sometimes music can be a companion when we feel alone. Here are some songs that explore similar feelings and might resonate with you:",
     sad |-> "I understand you're going through a difficult time. Music has a way of expressing what we can't always put into words. These songs might help you process these feelings:",
     happy |-> "It's wonderful that you're feeling so positive! Let's keep that energy going with some uplifting tracks that match your mood:",
     angry |-> "I can sense your frustration. Sometimes we need music that matches our intensity and helps us release these feelings. Here are some powerful tracks for you:",
     anxious |-> "I understand you're feeling overwhelmed. These songs might help you find some calm or at least know you're not alone in feeling this way:",
     nostalgic |-> "Ah, feeling nostalgic... Music has a unique way of taking us back. Here are some songs that capture that bittersweet feeling of remembering:",
     energetic |-> "You're full of energy! Let's channel that into some high-powered tracks that'll keep you motivated:",
     calm |-> "Finding your peace... Here are some tranquil songs to help maintain that serene state of mind:"]

createEmpatheticResponse(mood) ==
    IF mood \in DOMAIN EmpatheticResponses THEN EmpatheticResponses[mood]
    ELSE "I can sense you're feeling " \o mood \o ". Music has a way of connecting with our emotions. Here are some songs that might resonate with how you're feeling:"

\* models.ChatResponse; a nil pointer is the empty sequence, a pointer to a
\* value the sequence of that value.
ChatResponse(answer, error, type, songQuery, moodAnalysis, recommendations) ==
    [Answer |-> answer, Error |-> error, Type |-> type, SongQuery |-> songQuery,
     MoodAnalysis |-> moodAnalysis, Recommendations |-> recommendations]

NoResponse == ChatResponse("", "", "", <<>>, <<>>, <<>>)

\* handleSongRequest, lines 363 to 383.
handleSongRequest(query) ==
    LET songQuery == extractSongRequest(query)
        responseMsg ==
            IF songQuery.Artist # ""
            THEN "I'm searching for \"" \o songQuery.Query \o "\" by " \o songQuery.Artist
                     \o " in your playlists. Let me show you what I found!"
            ELSE "I'm searching for \"" \o songQuery.Query
                     \o "\" in your playlists. Let me show you what I found!"
    IN  ChatResponse(responseMsg, "", "song_request", <<songQuery>>, <<>>, <<>>)

NoSongAnswer ==
    "No song is currently playing. Please play a song in Spotify first, and I'll be able to help you understand its lyrics and meaning."

RestrictionAnswer ==
    "I can only help with questions about music, songs, lyrics, and artists. Please ask me something related to music!"

\* A repository that always says a song is playing.
IsPlayingAlways(s) == TRUE

\* MusicRepository.IsPlaying
IsPlaying(s) == ~NPIsEmpty(s)

\* cacheKey := fmt.Sprintf("%s|%s", current.TrackName, current.Artist)
MRCacheKey(s) == s.TrackName \o "|" \o s.Artist

\* What AnalyzeLyrics and GenerateResponse may answer to the handler: an error,
\* or a text, which the services do not check for being empty.
AITextAnswers ==
    {[err |-> TRUE, text |-> "", msg |-> "service unavailable"],
     [err |-> FALSE, text |-> "An answer in two short paragraphs.", msg |-> ""],
     [err |-> FALSE, text |-> "", msg |-> ""]}

\* What fallbackMoodDetection may return for the message.
FallbackResults(message) ==
    LET qualifying == {mood \in DOMAIN MoodKeywords : Qualifies(ToLower(message), mood)}
    IN  IF qualifying = {} THEN {DefaultMood}
        ELSE {MoodAnalysis(mood, KeywordScore(ToLower(message), mood), RelatedMoods[mood]) :
                mood \in qualifying}

\* What DetectMood may return for the message.
DetectMoodResults(message) ==
    {[err |-> TRUE, analysis |-> NoMood]} \cup
    {[err |-> FALSE, analysis |-> a.json] : a \in {m \in MoodAnswers : m.kind = "json"}} \cup
    {[err |-> FALSE, analysis |-> f] : f \in FallbackResults(message)}

\* The now-playing records and lyrics caches a chat request may find: no song,
\* a song without or with lyrics, a song without artist; nothing cached, or
\* lyrics cached by an earlier request.
ChatNowPlaying ==
    {NewNowPlaying} \cup
    {NPUpdateWhole(NewNowPlaying, track, 1) : track \in SpotifyTracks} \cup
    {NPUpdateLyricsWhole(NPUpdateWhole(NewNowPlaying, track, 1), lyrics) :
        track \in {t \in SpotifyTracks : t.Artist # ""}, lyrics \in LyricsTexts}

ChatCaches ==
    {<<>>} \cup {[k \in {"Song One|Artist One"} |-> lyrics] : lyrics \in LyricsTexts}

\* No chat request.
CHIdle ==
    /\ chQuery = ""
    /\ chPc = Idle
    /\ chTrace = <<>>
    /\ chCalls = <<>>
    /\ chMood = NoMood
    /\ chLyrics = ""
    /\ chSongInfo = ""
    /\ chResp = NoResponse
    /\ chAI = <<>>
    /\ mrCache = <<>>

\* HandleChat calls processChatRequest(query).
CHInit ==
    /\ chQuery \in Queries
    /\ chPc = <<"processChatRequest", 161>>
    /\ chTrace = <<>>
    /\ chCalls = <<>>
    /\ chMood = NoMood
    /\ chLyrics = ""
    /\ chSongInfo = ""
    /\ chResp = NoResponse
    /\ chAI = <<>>
    /\ mrCache \in ChatCaches

\* The repository as the requests before have left it.
NPChat ==
    /\ np \in ChatNowPlaying
    /\ npWriter = 0
    /\ npReaders = {}
    /\ npPc = [p \in Clients |-> Idle]
    /\ npArg = [p \in Clients |-> NoTrack]
    /\ npRet = [p \in Clients |-> NoRet]
    /\ npAbs = np
    /\ npLast = IF np.Lyrics # "" THEN "UpdateLyrics" ELSE IF NPIsEmpty(np) THEN "none" ELSE "Update"
    /\ npCleared = ""

\* The first line of each handler.
HandlerLine(handler) ==
    CASE handler = "handleSongRequest" -> 363
      [] handler = "handleMoodBasedQuery" -> 424
      [] handler = "handleLyricsQuery" -> 232
      [] handler = "handleGeneralQuery" -> 266

\* processChatRequest, lines 161 to 176.
CHDispatch ==
    /\ chPc = <<"processChatRequest", 161>>
    /\ chTrace' = Append(chTrace, Classify(chQuery))
    /\ chPc' = <<Classify(chQuery), HandlerLine(Classify(chQuery))>>
    /\ UNCHANGED <<chAI, chQuery, chCalls, chMood, chLyrics, chSongInfo, chResp, mrCache>>
    /\ UNCHANGED <<clock, npVars, phVars, msVars, cmVars, hsVars, cpVars, mrVars, glVars, dmVars>>

\* handleSongRequest
CHSongRequest ==
    /\ chPc = <<"handleSongRequest", 363>>
    /\ chResp' = handleSongRequest(chQuery)
    /\ chPc' = <<"returned", 379>>
    /\ UNCHANGED <<chAI, chQuery, chTrace, chCalls, chMood, chLyrics, chSongInfo, mrCache>>
    /\ UNCHANGED <<clock, npVars, phVars, msVars, cmVars, hsVars, cpVars, mrVars, glVars, dmVars>>

\* handleMoodBasedQuery, lines 424 to 428: DetectMood, and on its error
\* handleGeneralQuery.
CHDetectMood ==
    /\ chPc = <<"handleMoodBasedQuery", 424>>
    /\ \E r \in DetectMoodResults(chQuery) :
          IF r.err
          THEN /\ chTrace' = Append(chTrace, "handleGeneralQuery")
               /\ chPc' = <<"handleGeneralQuery", 266>>
               /\ UNCHANGED chMood
          ELSE /\ chMood' = r.analysis
               /\ chPc' = <<"handleMoodBasedQuery", 431>>
               /\ UNCHANGED chTrace
    /\ chCalls' = Append(chCalls, "DetectMood")
    /\ UNCHANGED <<chAI, chQuery, chLyrics, chSongInfo, chResp, mrCache>>
    /\ UNCHANGED <<clock, npVars, phVars, msVars, cmVars, hsVars, cpVars, mrVars, glVars, dmVars>>

\* The caller of the repository and of the mood service that is the chat
\* request; the other callers are other requests to the server.
ChatCaller == CHOOSE p \in Clients : \A q \in Clients : p <= q

\* The caller that is another request.
OtherCaller == CHOOSE p \in Clients : p # ChatCaller

\* Line 453
DefaultUser == "default_user"

\* Lines 454 to 457: the ids of the matched tracks.
PlayedSongIDs(libraryMatches) == [i \in DOMAIN libraryMatches |-> libraryMatches[i].Track.ID]

\* handleMoodBasedQuery, lines 431 to 458. getUserLibraryTracks returns no
\* track and no error, so MatchSongsToMood has no candidate and returns an
\* empty list. The request enters SaveUserMoodHistory, line 458.
CHMoodRecommend ==
    /\ chPc = <<"handleMoodBasedQuery", 431>>
    /\ chCalls' = chCalls \o <<"MatchSongsToMood", "SaveUserMoodHistory">>
    /\ SaveUserMoodHistory(ChatCaller, DefaultUser, chMood.PrimaryMood,
                           PlayedSongIDs(TopMatches(SortByScore(<<>>), LibraryLimit)))
    /\ chPc' = <<"handleMoodBasedQuery", 458>>
    /\ UNCHANGED <<chAI, chQuery, chTrace, chMood, chLyrics, chSongInfo, chResp, mrCache>>
    /\ UNCHANGED <<clock, npVars, phVars, msVars, cmVars, cpVars, mrVars, glVars, dmVars>>

\* handleMoodBasedQuery, line 458: the steps of SaveUserMoodHistory
\* (service.go, lines 311 to 324) the request takes.
CHMoodSave ==
    /\ chPc = <<"handleMoodBasedQuery", 458>>
    /\ \/ HSOpenFile(ChatCaller)
       \/ HSWriteString(ChatCaller)

\* handleMoodBasedQuery, lines 458 to 471: SaveUserMoodHistory has returned,
\* its result is discarded.
CHMoodReturned ==
    /\ chPc = <<"handleMoodBasedQuery", 458>>
    /\ hsPc[ChatCaller][1] = "returned"
    /\ LET libraryMatches == TopMatches(SortByScore(<<>>), LibraryLimit)
           generalSuggestions == getGeneralMoodSuggestions(chMood.PrimaryMood, SuggestionLimit)
       IN  chResp' = ChatResponse(createEmpatheticResponse(chMood.PrimaryMood), "",
                                  "mood_recommendation", <<>>, <<chMood>>,
                                  <<[FromLibrary |-> libraryMatches,
                                     Suggested |-> generalSuggestions]>>)
    /\ chPc' = <<"returned", 463>>
    /\ UNCHANGED <<chAI, chQuery, chTrace, chCalls, chMood, chLyrics, chSongInfo, mrCache>>
    /\ UNCHANGED <<clock, npVars, phVars, msVars, cmVars, hsVars, cpVars, mrVars, glVars, dmVars>>

\* handleLyricsQuery, lines 232 to 236.
CHLyricsIsPlaying ==
    /\ chPc = <<"handleLyricsQuery", 232>>
    /\ IF ~IsPlaying(np)
         THEN /\ chResp' = ChatResponse(NoSongAnswer, "", "", <<>>, <<>>, <<>>)
              /\ chPc' = <<"returned", 233>>
         ELSE /\ chPc' = <<"handleLyricsQuery", 239>>
              /\ UNCHANGED chResp
    /\ UNCHANGED <<chAI, chQuery, chTrace, chCalls, chMood, chLyrics, chSongInfo, mrCache>>
    /\ UNCHANGED <<clock, npVars, phVars, msVars, cmVars, hsVars, cpVars, mrVars, glVars, dmVars>>

\* The answer of lines 245 to 247.
LyricsFailedAnswer(songInfo, err) ==
    "I can see that you're currently playing \"" \o songInfo
        \o "\", but I couldn't fetch the lyrics: " \o err
        \o "\n\nYou can still ask me general questions about this song or artist!"

\* handleLyricsQuery, lines 251 to 260.
CHLyricsAnalyze ==
    /\ chPc = <<"handleLyricsQuery", 251>>
    /\ chCalls' = Append(chCalls, "AnalyzeLyrics")
    /\ \E ai \in AITextAnswers :
          /\ chAI' = Append(chAI, ai)
          /\ IF ai.err
             THEN /\ chResp' = ChatResponse("", "Error analyzing lyrics: " \o ai.msg, "",
                                            <<>>, <<>>, <<>>)
                  /\ chPc' = <<"returned", 253>>
             ELSE /\ chResp' = ChatResponse(ai.text, "", "", <<>>, <<>>, <<>>)
                  /\ chPc' = <<"returned", 258>>
    /\ UNCHANGED <<chQuery, chTrace, chMood, chLyrics, chSongInfo, mrCache>>
    /\ UNCHANGED <<clock, npVars, phVars, msVars, cmVars, hsVars, cpVars, mrVars, glVars, dmVars>>

\* handleGeneralQuery, lines 266 to 270.
CHGeneralGate ==
    /\ chPc = <<"handleGeneralQuery", 266>>
    /\ IF ~isMusicRelatedQuery(chQuery)
         THEN /\ chResp' = ChatResponse(RestrictionAnswer, "", "", <<>>, <<>>, <<>>)
              /\ chPc' = <<"returned", 267>>
         ELSE /\ chPc' = <<"handleGeneralQuery", 273>>
              /\ UNCHANGED chResp
    /\ UNCHANGED <<chAI, chQuery, chTrace, chCalls, chMood, chLyrics, chSongInfo, mrCache>>
    /\ UNCHANGED <<clock, npVars, phVars, msVars, cmVars, hsVars, cpVars, mrVars, glVars, dmVars>>

\* handleGeneralQuery, lines 273 to 283.
CHGeneralAnswer ==
    /\ chPc = <<"handleGeneralQuery", 273>>
    /\ chCalls' = Append(chCalls, "GenerateResponse")
    /\ \E ai \in AITextAnswers :
          /\ chAI' = Append(chAI, ai)
          /\ IF ai.err
             THEN /\ chResp' = ChatResponse("", "Error generating response: " \o ai.msg, "",
                                            <<>>, <<>>, <<>>)
                  /\ chPc' = <<"returned", 276>>
             ELSE /\ chResp' = ChatResponse(ai.text, "", "", <<>>, <<>>, <<>>)
                  /\ chPc' = <<"returned", 281>>
    /\ UNCHANGED <<chQuery, chTrace, chMood, chLyrics, chSongInfo, mrCache>>
    /\ UNCHANGED <<clock, npVars, phVars, msVars, cmVars, hsVars, cpVars, mrVars, glVars, dmVars>>

\* ------------------------------------------------------------- MusicRepository
\* Concurrent callers of UpdateNowPlaying and GetLyricsForCurrentSong on one
\* repository. The methods of NowPlaying and PlayHistory run under the mutex of
\* their object, so each is one step here; lyricsCache has no mutex.

\* models.NewPlayHistory(10)
RepoHistorySize == 10

\* What geniusService.GetLyrics may answer for a track: an error, or lyrics of
\* that track, which the provider may give in one wording or another.
MRLyricsOf(trackName, artist) ==
    {"Lyrics of " \o trackName \o " by " \o artist,
     "Lyrics of " \o trackName \o " by " \o artist \o " (annotated)"}

MRGeniusFor(trackName, artist) ==
    {[err |-> TRUE, lyrics |-> "", msg |-> "failed to fetch lyrics: lyrics not found"]} \cup
    {[err |-> FALSE, lyrics |-> l, msg |-> ""] : l \in MRLyricsOf(trackName, artist)}

\* The track a NowPlaying record holds.
MRTrackOf(s) == <<s.TrackID, s.TrackName, s.Artist, s.Album>>

NoOut == [err |-> FALSE, lyrics |-> "", msg |-> ""]

\* The lines at which GetLyricsForCurrentSong returns.
MRReturnLines == {60, 65, 72, 78, 85}

MRAtReturn(p) == mrPc[p][1] = "GetLyricsForCurrentSong" /\ mrPc[p][2] \in MRReturnLines

\* The access to r.lyricsCache the caller makes next: the lookup of line 70,
\* the assignment of line 82, or none.
MRAccess(p) ==
    IF mrPc[p] = <<"GetLyricsForCurrentSong", 70>> THEN "read"
    ELSE IF mrPc[p] = <<"GetLyricsForCurrentSong", 82>> THEN "write"
    ELSE "none"

\* Two accesses to the map that nothing orders, one of them a write.
MRRacing(p, q) == p # q /\ MRAccess(p) = "write" /\ MRAccess(q) \in {"read", "write"}

\* No repository call in progress.
MRIdle ==
    /\ mrPc = [p \in Clients |-> Idle]
    /\ mrTrack = [p \in Clients |-> NoTrack]
    /\ mrCur = [p \in Clients |-> NewNowPlaying]
    /\ mrLyr = [p \in Clients |-> ""]
    /\ mrOut = [p \in Clients |-> NoOut]
    /\ mrInvoked = [p \in Clients |-> FALSE]
    /\ mrSeen = [p \in Clients |-> {}]
    /\ mrReturned = {}
    /\ mrFatal = FALSE
    /\ mrCalls = 0

\* The play history of NewMusicRepository.
PHRepo ==
    /\ phItems = <<>>
    /\ phMax = RepoHistorySize
    /\ phWriter = 0
    /\ phReaders = {}
    /\ phPc = [p \in Clients |-> Idle]
    /\ phArg = [p \in Clients |-> NoUnified]
    /\ phItem = [p \in Clients |-> NoItem]
    /\ phRet = [p \in Clients |-> <<>>]
    /\ phLog = <<>>

\* The UnifiedTrack values handed to UpdateNowPlayingUnified.
MRUnifiedTracks ==
    { [ID |-> "yt123", Name |-> "Test YouTube Song", Artist |-> "Test YouTube Artist",
       Album |-> "Test YouTube Album", Source |-> "youtube"] }

\* The first lines of UpdateNowPlaying and UpdateNowPlayingUnified, and their
\* second lines.
MRUpdateFirst == {<<"UpdateNowPlaying", 29>>, <<"UpdateNowPlayingUnified", 35>>}

MRUpdateSecond == {<<"UpdateNowPlaying", 30>>, <<"UpdateNowPlayingUnified", 36>>}

\* The track of the caller as a UnifiedTrack: PlayHistory.Add converts with
\* FromSpotifyTrack (play_history.go, line 35).
MRUnifiedOf(p) ==
    IF mrPc[p][1] = "UpdateNowPlayingUnified" THEN mrTrack[p] ELSE FromSpotifyTrack(mrTrack[p])

\* A caller enters UpdateNowPlayingUnified(track).
MRUpdateUnifiedCall(p, track) ==
    /\ ~mrFatal
    /\ mrPc[p] = Idle
    /\ mrCalls < MaxRepoCalls
    /\ mrCalls' = mrCalls + 1
    /\ mrTrack' = [mrTrack EXCEPT ![p] = track]
    /\ mrPc' = [mrPc EXCEPT ![p] = <<"UpdateNowPlayingUnified", 35>>]
    /\ UNCHANGED <<mrCur, mrLyr, mrOut, mrInvoked, mrSeen, mrReturned, mrFatal, mrCache>>
    /\ UNCHANGED chCallVars
    /\ UNCHANGED <<clock, npVars, phVars, msVars, cmVars, hsVars, cpVars, glVars, dmVars>>

\* A caller enters UpdateNowPlaying(track).
MRUpdateCall(p, track) ==
    /\ ~mrFatal
    /\ mrPc[p] = Idle
    /\ mrCalls < MaxRepoCalls
    /\ mrCalls' = mrCalls + 1
    /\ mrTrack' = [mrTrack EXCEPT ![p] = track]
    /\ mrPc' = [mrPc EXCEPT ![p] = <<"UpdateNowPlaying", 29>>]
    /\ UNCHANGED <<mrCur, mrLyr, mrOut, mrInvoked, mrSeen, mrReturned, mrFatal, mrCache>>
    /\ UNCHANGED chCallVars
    /\ UNCHANGED <<clock, npVars, phVars, msVars, cmVars, hsVars, cpVars, glVars, dmVars>>

\* r.nowPlaying.Update(track), line 29, or r.nowPlaying.UpdateUnified(track),
\* line 35. UpdateUnified is not among the sources; it is taken to assign the
\* fields Update assigns, from the fields of the same name, and the Source of
\* the track, as the test of UpdateNowPlayingUnified expects of the track id,
\* the name and the source.
MRUpdateNowPlaying(p) ==
    /\ ~mrFatal
    /\ mrPc[p] \in MRUpdateFirst
    /\ np' = NPUpdateWhole(np, MRUnifiedOf(p), clock)
    /\ npAbs' = np'
    /\ npLast' = "Update"
    /\ npCleared' = np.Lyrics
    /\ IF MRTrackOf(np') = MRTrackOf(np)
         THEN UNCHANGED <<mrSeen, mrReturned>>
         ELSE /\ mrSeen' = [q \in Clients |-> {}]
              /\ mrReturned' = {}
    /\ mrPc' = [mrPc EXCEPT ![p] = <<mrPc[p][1], mrPc[p][2] + 1>>]
    /\ UNCHANGED <<mrTrack, mrCur, mrLyr, mrOut, mrInvoked, mrFatal, mrCalls, mrCache>>
    /\ UNCHANGED <<npWriter, npReaders, npPc, npArg, npRet>>
    /\ UNCHANGED chCallVars
    /\ UNCHANGED <<clock, phVars, msVars, cmVars, hsVars, cpVars, glVars, dmVars>>

\* r.playHistory.Add(track), line 30, or r.playHistory.AddUnified(track),
\* line 36.
MRUpdateHistory(p) ==
    /\ ~mrFatal
    /\ mrPc[p] \in MRUpdateSecond
    /\ LET item == PHNewItem(MRUnifiedOf(p), clock)
       IN  /\ phItems' = PHTruncate(PHPrepend(item, phItems), phMax)
           /\ phLog' = Append(phLog, item)
    /\ mrPc' = [mrPc EXCEPT ![p] = Idle]
    /\ UNCHANGED <<mrTrack, mrCur, mrLyr, mrOut, mrInvoked, mrSeen, mrReturned, mrFatal,
                   mrCalls, mrCache>>
    /\ UNCHANGED <<phMax, phWriter, phReaders, phPc, phArg, phItem, phRet>>
    /\ UNCHANGED chCallVars
    /\ UNCHANGED <<clock, npVars, msVars, cmVars, hsVars, cpVars, glVars, dmVars>>

\* A caller enters GetLyricsForCurrentSong: current := r.nowPlaying.Get() and
\* the tests of lines 59 and 64 on the copy; line 69 builds the cache key.
MRGetCurrent(p) ==
    /\ ~mrFatal
    /\ mrPc[p] = Idle
    /\ mrCalls < MaxRepoCalls
    /\ mrCalls' = mrCalls + 1
    /\ mrCur' = [mrCur EXCEPT ![p] = np]
    /\ mrSeen' = [mrSeen EXCEPT ![p] = mrReturned]
    /\ mrInvoked' = [mrInvoked EXCEPT ![p] = FALSE]
    /\ mrLyr' = [mrLyr EXCEPT ![p] = ""]
    /\ IF np.TrackName = "" \/ np.Artist = ""
         THEN /\ mrOut' = [mrOut EXCEPT ![p] = [err |-> TRUE, lyrics |-> "",
                                               msg |-> "no song is currently playing"]]
              /\ mrPc' = [mrPc EXCEPT ![p] = <<"GetLyricsForCurrentSong", 60>>]
         ELSE IF np.Lyrics # ""
         THEN /\ mrOut' = [mrOut EXCEPT ![p] = [err |-> FALSE, lyrics |-> np.Lyrics, msg |-> ""]]
              /\ mrPc' = [mrPc EXCEPT ![p] = <<"GetLyricsForCurrentSong", 65>>]
         ELSE /\ mrOut' = [mrOut EXCEPT ![p] = NoOut]
              /\ mrPc' = [mrPc EXCEPT ![p] = <<"GetLyricsForCurrentSong", 70>>]
    /\ UNCHANGED <<mrTrack, mrReturned, mrFatal, mrCache>>
    /\ UNCHANGED chCallVars
    /\ UNCHANGED <<clock, npVars, phVars, msVars, cmVars, hsVars, cpVars, glVars, dmVars>>

\* if lyrics, ok := r.lyricsCache[cacheKey]; ok
MRCacheLookup(p) ==
    /\ ~mrFatal
    /\ mrPc[p] = <<"GetLyricsForCurrentSong", 70>>
    /\ IF MRCacheKey(mrCur[p]) \in DOMAIN mrCache
         THEN /\ mrLyr' = [mrLyr EXCEPT ![p] = mrCache[MRCacheKey(mrCur[p])]]
              /\ mrPc' = [mrPc EXCEPT ![p] = <<"GetLyricsForCurrentSong", 71>>]
         ELSE /\ mrPc' = [mrPc EXCEPT ![p] = <<"GetLyricsForCurrentSong", 76>>]
              /\ UNCHANGED mrLyr
    /\ UNCHANGED <<mrTrack, mrCur, mrOut, mrInvoked, mrSeen, mrReturned, mrFatal, mrCalls,
                   mrCache>>
    /\ UNCHANGED chCallVars
    /\ UNCHANGED <<clock, npVars, phVars, msVars, cmVars, hsVars, cpVars, glVars, dmVars>>

\* r.nowPlaying.UpdateLyrics(lyrics), line 71 or line 83, and the return
\* statement after it.
MRUpdateLyrics(p) ==
    /\ ~mrFatal
    /\ mrPc[p] \in {<<"GetLyricsForCurrentSong", 71>>, <<"GetLyricsForCurrentSong", 83>>}
    /\ np' = NPUpdateLyricsWhole(np, mrLyr[p])
    /\ npAbs' = np'
    /\ npLast' = "UpdateLyrics"
    /\ mrOut' = [mrOut EXCEPT ![p] = [err |-> FALSE, lyrics |-> mrLyr[p], msg |-> ""]]
    /\ mrPc' = [mrPc EXCEPT ![p] = <<"GetLyricsForCurrentSong",
                                     IF mrPc[p][2] = 71 THEN 72 ELSE 85>>]
    /\ UNCHANGED <<mrTrack, mrCur, mrLyr, mrInvoked, mrSeen, mrReturned, mrFatal, mrCalls,
                   mrCache>>
    /\ UNCHANGED <<npWriter, npReaders, npPc, npArg, npRet, npCleared>>
    /\ UNCHANGED chCallVars
    /\ UNCHANGED <<clock, phVars, msVars, cmVars, hsVars, cpVars, glVars, dmVars>>

\* lyrics, err := r.geniusService.GetLyrics(current.TrackName, current.Artist),
\* lines 76 to 79.
MRGenius(p) ==
    /\ ~mrFatal
    /\ mrPc[p] = <<"GetLyricsForCurrentSong", 76>>
    /\ mrInvoked' = [mrInvoked EXCEPT ![p] = TRUE]
    /\ \E got \in MRGeniusFor(mrCur[p].TrackName, mrCur[p].Artist) :
          IF got.err
          THEN /\ mrOut' = [mrOut EXCEPT ![p] = got]
               /\ mrPc' = [mrPc EXCEPT ![p] = <<"GetLyricsForCurrentSong", 78>>]
               /\ UNCHANGED mrLyr
          ELSE /\ mrLyr' = [mrLyr EXCEPT ![p] = got.lyrics]
               /\ mrPc' = [mrPc EXCEPT ![p] = <<"GetLyricsForCurrentSong", 82>>]
               /\ UNCHANGED mrOut
    /\ UNCHANGED <<mrTrack, mrCur, mrSeen, mrReturned, mrFatal, mrCalls, mrCache>>
    /\ UNCHANGED chCallVars
    /\ UNCHANGED <<clock, npVars, phVars, msVars, cmVars, hsVars, cpVars, glVars, dmVars>>

\* r.lyricsCache[cacheKey] = lyrics
MRCacheStore(p) ==
    /\ ~mrFatal
    /\ mrPc[p] = <<"GetLyricsForCurrentSong", 82>>
    /\ mrCache' = [k \in DOMAIN mrCache \cup {MRCacheKey(mrCur[p])} |->
                     IF k = MRCacheKey(mrCur[p]) THEN mrLyr[p] ELSE mrCache[k]]
    /\ mrPc' = [mrPc EXCEPT ![p] = <<"GetLyricsForCurrentSong", 83>>]
    /\ UNCHANGED <<mrTrack, mrCur, mrLyr, mrOut, mrInvoked, mrSeen, mrReturned, mrFatal,
                   mrCalls>>
    /\ UNCHANGED chCallVars
    /\ UNCHANGED <<clock, npVars, phVars, msVars, cmVars, hsVars, cpVars, glVars, dmVars>>

\* The runtime finds two unordered accesses to the map, one of them a write,
\* and stops the process ("fatal error: concurrent map writes", "concurrent map
\* read and map write"). It may also find nothing and let both go on.
MRFatalError ==
    /\ ~mrFatal
    /\ \E p, q \in Clients : MRRacing(p, q)
    /\ mrFatal' = TRUE
    /\ UNCHANGED <<mrPc, mrTrack, mrCur, mrLyr, mrOut, mrInvoked, mrSeen, mrReturned,
                   mrCalls, mrCache>>
    /\ UNCHANGED chCallVars
    /\ UNCHANGED <<clock, npVars, phVars, msVars, cmVars, hsVars, cpVars, glVars, dmVars>>

\* The return statement of line 60, 65, 72, 78 or 85: the caller has the
\* lyrics, or the error.
MRReturn(p) ==
    /\ ~mrFatal
    /\ MRAtReturn(p)
    /\ mrReturned' = IF ~mrOut[p].err /\ MRTrackOf(mrCur[p]) = MRTrackOf(np)
                     THEN mrReturned \cup {mrOut[p].lyrics} ELSE mrReturned
    /\ mrPc' = [mrPc EXCEPT ![p] = Idle]
    /\ UNCHANGED <<mrTrack, mrCur, mrLyr, mrOut, mrInvoked, mrSeen, mrFatal, mrCalls, mrCache>>
    /\ UNCHANGED chCallVars
    /\ UNCHANGED <<clock, npVars, phVars, msVars, cmVars, hsVars, cpVars, glVars, dmVars>>

NextRepository ==
    \/ \E p \in Clients, track \in SpotifyTracks : MRUpdateCall(p, track)
    \/ \E p \in Clients, track \in MRUnifiedTracks : MRUpdateUnifiedCall(p, track)
    \/ \E p \in Clients : MRUpdateNowPlaying(p)
    \/ \E p \in Clients : MRUpdateHistory(p)
    \/ \E p \in Clients : MRGetCurrent(p)
    \/ \E p \in Clients : MRCacheLookup(p)
    \/ \E p \in Clients : MRGenius(p)
    \/ \E p \in Clients : MRCacheStore(p)
    \/ \E p \in Clients : MRUpdateLyrics(p)
    \/ \E p \in Clients : MRReturn(p)
    \/ MRFatalError

\* ------------------------------------------------------------- handleLyricsQuery and the repository
\* The play history the requests before have left: the track NowPlaying
\* holds, when it holds one.
PHChat ==
    /\ phItems = IF np = NewNowPlaying THEN <<>>
                 ELSE <<[TrackID |-> np.TrackID, TrackName |-> np.TrackName, Artist |-> np.Artist,
                         Album |-> np.Album, Source |-> np.Source, PlayedAt |-> np.UpdatedAt]>>
    /\ phMax = RepoHistorySize
    /\ phWriter = 0
    /\ phReaders = {}
    /\ phPc = [p \in Clients |-> Idle]
    /\ phArg = [p \in Clients |-> NoUnified]
    /\ phItem = [p \in Clients |-> NoItem]
    /\ phRet = [p \in Clients |-> <<>>]
    /\ phLog = phItems

\* handleLyricsQuery, line 239: songInfo := h.musicRepo.GetCurrentSongInfo()
CHLyricsSongInfo ==
    /\ chPc = <<"handleLyricsQuery", 239>>
    /\ chSongInfo' = NPGetInfo(np)
    /\ chPc' = <<"handleLyricsQuery", 242>>
    /\ UNCHANGED <<chAI, chQuery, chTrace, chCalls, chMood, chLyrics, chResp, mrCache>>
    /\ UNCHANGED <<clock, npVars, phVars, msVars, cmVars, hsVars, cpVars, mrVars, glVars, dmVars>>

\* handleLyricsQuery, line 242: the steps of GetLyricsForCurrentSong
\* (music_repository.go, lines 55 to 86) the request takes.
CHLyricsRepository ==
    /\ chPc = <<"handleLyricsQuery", 242>>
    /\ \/ MRGetCurrent(ChatCaller)
       \/ MRCacheLookup(ChatCaller)
       \/ MRGenius(ChatCaller)
       \/ MRCacheStore(ChatCaller)
       \/ MRUpdateLyrics(ChatCaller)

\* handleLyricsQuery, lines 242 to 248: GetLyricsForCurrentSong has returned.
CHLyricsReturned ==
    /\ chPc = <<"handleLyricsQuery", 242>>
    /\ MRAtReturn(ChatCaller)
    /\ IF mrOut[ChatCaller].err
         THEN /\ chResp' = ChatResponse(LyricsFailedAnswer(chSongInfo, mrOut[ChatCaller].msg),
                                        "", "", <<>>, <<>>, <<>>)
              /\ chPc' = <<"returned", 245>>
              /\ UNCHANGED chLyrics
         ELSE /\ chLyrics' = mrOut[ChatCaller].lyrics
              /\ chPc' = <<"handleLyricsQuery", 251>>
              /\ UNCHANGED chResp
    /\ UNCHANGED <<chAI, chQuery, chTrace, chCalls, chMood, chSongInfo, mrCache>>
    /\ UNCHANGED <<clock, npVars, phVars, msVars, cmVars, hsVars, cpVars, mrVars, glVars, dmVars>>

\* The calls of the repository other requests have made.
OtherCalls == mrCalls - (IF mrPc[ChatCaller] = Idle THEN 0 ELSE 1)

\* Another request, a mood-based query, saves its mood (handleMoodBasedQuery,
\* line 458) while the chat request is on its way to SaveUserMoodHistory or in
\* it, the one place where the chat request uses the mood history. A request
\* makes the call once; its library matches are empty as well. The other
\* request is this one or one that updates the track, not both.
CHOtherSave ==
    \E p \in {OtherCaller} :
        \/ /\ chPc \in {<<"handleMoodBasedQuery", 431>>, <<"handleMoodBasedQuery", 458>>}
           /\ hsPc[p] = Idle
           /\ OtherCalls = 0
           /\ HSSave(p, DefaultUser, "sad", <<>>)
        \/ HSOpenFile(p)
        \/ HSWriteString(p)

\* Another request calls UpdateNowPlaying or UpdateNowPlayingUnified while the
\* chat request is served.
CHOtherUpdate ==
    \E p \in {OtherCaller} :
        \/ /\ OtherCalls < MaxOtherUpdates
           /\ hsPc[p] = Idle
           /\ \/ \E track \in SpotifyTracks : MRUpdateCall(p, track)
              \/ \E track \in MRUnifiedTracks : MRUpdateUnifiedCall(p, track)
        \/ MRUpdateNowPlaying(p)
        \/ MRUpdateHistory(p)

NextChat ==
    \/ CHDispatch
    \/ CHSongRequest
    \/ CHDetectMood
    \/ CHMoodRecommend
    \/ CHMoodSave
    \/ CHMoodReturned
    \/ CHLyricsIsPlaying
    \/ CHLyricsSongInfo
    \/ CHLyricsRepository
    \/ CHLyricsReturned
    \/ CHLyricsAnalyze
    \/ CHGeneralGate
    \/ CHGeneralAnswer
    \/ CHOtherUpdate
    \/ CHOtherSave

\* ------------------------------------------------------------- returned values
\* Callers that keep what NowPlaying.Get and PlayHistory.GetItems returned and
\* write to it. A slice is its backing array and contents: a write through one
\* slice is seen through every slice on the same array. Each method runs under
\* the mutex of its object and is one step here.

\* The array ph.items is on: append([]PlayHistoryItem{item}, ph.items...) makes
\* a new one at every AddUnified, ph.items[:ph.maxItems] stays on it.
PHItemsArray == <<"ph.items", Len(phLog)>>

\* A GetItems that returns ph.items itself.
PHReturnedArrayShared(p) == PHItemsArray

\* itemsCopy := make([]PlayHistoryItem, len(ph.items)): an array of the call.
PHReturnedArray(p) == <<"itemsCopy", p>>

NoSlice == [array |-> <<"nil", 0>>, items |-> <<>>]

\* What a caller writes into a value it was given.
CallerMark == "Modified"

\* items[i].TrackName = "Modified", seen through `slice`.
WriteThrough(slice, array, i) ==
    IF slice.array = array /\ i \in DOMAIN slice.items
    THEN [slice EXCEPT !.items[i].TrackName = CallerMark]
    ELSE slice

\* No caller holds a returned value.
CPIdle ==
    /\ cpItems = [p \in Clients |-> NoSlice]
    /\ cpNp = [p \in Clients |-> NewNowPlaying]
    /\ cpWrote = [p \in Clients |-> {}]

\* ph.Add(track), lines 34 to 59.
CPAdd(track) ==
    /\ Len(phLog) < MaxAdds
    /\ LET item == PHNewItem(FromSpotifyTrack(track), clock)
       IN  /\ phItems' = PHAddStep(PHAddStep(phItems, 53, item, phMax), 56, item, phMax)
           /\ phLog' = Append(phLog, item)
    /\ UNCHANGED <<phMax, phWriter, phReaders, phPc, phArg, phItem, phRet>>
    /\ UNCHANGED <<clock, npVars, msVars, cmVars, hsVars, glVars, dmVars, chVars, mrVars, cpVars>>

\* items := ph.GetItems(), lines 62 to 70.
CPGetItems(p) ==
    /\ cpItems' = [cpItems EXCEPT ![p] = [array |-> PHReturnedArray(p), items |-> phItems]]
    /\ cpWrote' = [cpWrote EXCEPT ![p] = @ \ {"items"}]
    /\ UNCHANGED cpNp
    /\ UNCHANGED <<clock, npVars, phVars, msVars, cmVars, hsVars, glVars, dmVars, chVars, mrVars>>

\* The caller writes to the first element of the slice it was given, as the
\* test does: items1[0].TrackName = "Modified".
CPWriteItems(p) ==
    /\ cpItems[p].items # <<>>
    /\ cpItems' = [q \in Clients |-> WriteThrough(cpItems[q], cpItems[p].array, 1)]
    /\ phItems' = WriteThrough([array |-> PHItemsArray, items |-> phItems],
                               cpItems[p].array, 1).items
    /\ cpWrote' = [cpWrote EXCEPT ![p] = @ \cup {"items"}]
    /\ UNCHANGED cpNp
    /\ UNCHANGED <<phMax, phWriter, phReaders, phPc, phArg, phItem, phRet, phLog>>
    /\ UNCHANGED <<clock, npVars, msVars, cmVars, hsVars, glVars, dmVars, chVars, mrVars>>

\* np.Update(track), lines 25 to 35.
CPUpdate(track) ==
    /\ np' = NPUpdateWhole(np, track, clock)
    /\ npAbs' = np'
    /\ npLast' = "Update"
    /\ npCleared' = np.Lyrics
    /\ UNCHANGED <<npWriter, npReaders, npPc, npArg, npRet>>
    /\ UNCHANGED <<clock, phVars, msVars, cmVars, hsVars, glVars, dmVars, chVars, mrVars, cpVars>>

\* current := np.Get(), lines 45 to 57: a NowPlaying value built field by field.
RECURSIVE NPGetFrom(_, _, _)
NPGetFrom(r, line, s) ==
    IF line > 55 THEN r ELSE NPGetFrom(NPGetCopy(r, line, s), line + 1, s)

CPGet(p) ==
    /\ cpNp' = [cpNp EXCEPT ![p] = NPGetFrom(NewNowPlaying, 50, np)]
    /\ cpWrote' = [cpWrote EXCEPT ![p] = @ \ {"np"}]
    /\ UNCHANGED cpItems
    /\ UNCHANGED <<clock, npVars, phVars, msVars, cmVars, hsVars, glVars, dmVars, chVars, mrVars>>

\* The caller writes to a field of the NowPlaying value it was given.
CPWriteNowPlaying(p) ==
    /\ ~NPIsEmpty(cpNp[p])
    /\ cpNp' = [cpNp EXCEPT ![p].TrackName = CallerMark]
    /\ cpWrote' = [cpWrote EXCEPT ![p] = @ \cup {"np"}]
    /\ UNCHANGED cpItems
    /\ UNCHANGED <<clock, npVars, phVars, msVars, cmVars, hsVars, glVars, dmVars, chVars, mrVars>>

NextCopies ==
    \/ \E track \in PHSpotifyTracks : CPAdd(track)
    \/ \E p \in Clients : CPGetItems(p)
    \/ \E p \in Clients : CPWriteItems(p)
    \/ \E track \in PHSpotifyTracks : CPUpdate(track)
    \/ \E p \in Clients : CPGet(p)
    \/ \E p \in Clients : CPWriteNowPlaying(p)

\* ------------------------------------------------------------- calculateMoodMatch
\* The eight moods of the enumeration.
EnumeratedMoods == {"sad", "happy", "angry", "lonely", "anxious", "nostalgic", "energetic", "calm"}

\* The analyses calculateMoodMatch is called with: the user's mood is one of
\* the eight; the song's is one of the eight or a mood the table relates to one
\* of them.
CMUserMoods ==
    {MoodAnalysis(mood, 700, tags) :
        mood \in EnumeratedMoods, tags \in {<<>>, <<"grief", "melancholic">>}}

CMSongMoods ==
    {MoodAnalysis(mood, score, tags) :
        mood \in EnumeratedMoods \cup {"melancholic", "joyful"},
        score \in {0, 500, 1000},
        tags \in {<<>>, <<"grief">>}}

\* No call of calculateMoodMatch.
CMIdle ==
    /\ cmUser = NoMood
    /\ cmSong = NoMood
    /\ cmRet = << >>

\* A call calculateMoodMatch(userMood, songMood) at its first line.
CMInit ==
    /\ cmUser \in CMUserMoods
    /\ cmSong \in CMSongMoods
    /\ cmRet = << >>

\* calculateMoodMatch(userMood, songMood), lines 237 to 269.
CMCalculate ==
    /\ cmRet = << >>
    /\ cmRet' = [line |-> MoodMatchReturnLine(cmUser, cmSong),
                 score |-> calculateMoodMatch(cmUser, cmSong)]
    /\ UNCHANGED <<cmUser, cmSong>>
    /\ UNCHANGED <<clock, npVars, phVars, msVars, glVars, dmVars, chVars, mrVars, cpVars, hsVars>>

NextMoodMatch == CMCalculate

\* ------------------------------------------------------------- specifications
InitMatch == clock = 1 /\ NPInit /\ PHIdle /\ MSInit /\ GLInit /\ DMIdle /\ CHIdle /\ MRIdle /\ CPIdle /\ HSIdle /\ CMIdle

\* One call of MatchSongsToMood.
SpecMatch == InitMatch /\ [][NextMatchOnce]_vars

InitMatchFair ==
    clock = 1 /\ NPInit /\ PHIdle /\ MSFairInit /\ GLInit /\ DMIdle /\ CHIdle /\ MRIdle /\ CPIdle /\ HSIdle /\ CMIdle

\* One call of MatchSongsToMood under a scheduler that lets some goroutine that
\* can take a step take one: the Go scheduler leaves no runnable goroutine
\* waiting forever.
SpecMatchFair == InitMatchFair /\ [][NextMatchOnce]_vars /\ WF_vars(NextMatchOnce)

NextMatchTwice == NextMatchOnce \/ MatchAgain

\* Two calls of MatchSongsToMood with the same arguments, one after the other.
SpecMatchTwice == InitMatch /\ [][NextMatchTwice]_vars

InitNowPlaying == clock = 1 /\ NPInit /\ PHIdle /\ MSIdle /\ GLInit /\ DMIdle /\ CHIdle /\ MRIdle /\ CPIdle /\ HSIdle /\ CMIdle

SpecNowPlaying == InitNowPlaying /\ [][NextNowPlaying]_vars

InitPlayHistory == clock = 1 /\ NPInit /\ PHInit /\ MSIdle /\ GLInit /\ DMIdle /\ CHIdle /\ MRIdle /\ CPIdle /\ HSIdle /\ CMIdle

SpecPlayHistory == InitPlayHistory /\ [][NextPlayHistory]_vars

InitLyricsCache == clock = 1 /\ NPInit /\ PHIdle /\ MSIdle /\ GLInit /\ DMIdle /\ CHIdle /\ MRIdle /\ CPIdle /\ HSIdle /\ CMIdle

\* Concurrent callers of GetLyricsWithMood on one service.
SpecLyricsCache == InitLyricsCache /\ [][NextLyricsCache]_vars

InitLyricsKeys ==
    clock = 1 /\ NPInit /\ PHIdle /\ MSIdle /\ GLInit /\ DMIdle /\ CHIdle /\ MRIdle /\ CPIdle /\ HSIdle /\ CMIdle

SpecLyricsKeys == InitLyricsKeys /\ [][NextLyricsKeys]_vars

InitDetectMood == clock = 1 /\ NPInit /\ PHIdle /\ MSIdle /\ GLInit /\ DMInit /\ CHIdle /\ MRIdle /\ CPIdle /\ HSIdle /\ CMIdle

\* Two calls of DetectMood with the same message, one after the other.
SpecDetectMood == InitDetectMood /\ [][NextDetectMood]_vars

InitChat == clock = 1 /\ NPChat /\ PHChat /\ MSIdle /\ GLInit /\ DMIdle /\ CHInit /\ MRIdle /\ CPIdle /\ HSIdle /\ CMIdle

\* One chat request.
SpecChat == InitChat /\ [][NextChat]_vars

InitRepository == clock = 1 /\ NPInit /\ PHRepo /\ MSIdle /\ GLInit /\ DMIdle /\ CHIdle /\ MRIdle /\ CPIdle /\ HSIdle /\ CMIdle

\* Concurrent callers of UpdateNowPlaying and GetLyricsForCurrentSong.
SpecRepository == InitRepository /\ [][NextRepository]_vars

InitMoodHistory ==
    clock = 1 /\ NPInit /\ PHIdle /\ MSIdle /\ GLInit /\ DMIdle /\ CHIdle /\ MRIdle /\ CPIdle /\ HSIdle /\ CMIdle

\* SaveUserMoodHistory calls of concurrent callers and GetUserMoodHistory calls
\* on the mood history files of one service.
SpecMoodHistory == InitMoodHistory /\ [][NextMoodHistory]_vars

InitMoodMatch ==
    clock = 1 /\ NPInit /\ PHIdle /\ MSIdle /\ GLInit /\ DMIdle /\ CHIdle /\ MRIdle /\ CPIdle /\ HSIdle /\ CMInit

\* One call of calculateMoodMatch.
SpecMoodMatch == InitMoodMatch /\ [][NextMoodMatch]_vars

InitCopies == clock = 1 /\ NPInit /\ PHInit /\ MSIdle /\ GLInit /\ DMIdle /\ CHIdle /\ MRIdle /\ CPIdle /\ HSIdle /\ CMIdle

\* Callers that write to the values Get and GetItems gave them.
SpecCopies == InitCopies /\ [][NextCopies]_vars

\* ------------------------------------------------------------- properties
NPIdentity(s) ==
    [ID |-> s.TrackID, Name |-> s.TrackName, Artist |-> s.Artist, Album |-> s.Album]

\* C1: NowPlaying is linearizable. The value a Get returns is the record as the
\* writes that took effect before it, run one after the other in lock order, leave
\* it, so its identity fields are those of one single Update (or of no Update at
\* all); and whenever no writer is inside, the stored record is that same record.
C1_NowPlayingLinearizable ==
    /\ npWriter = 0 => np = npAbs
    /\ \A p \in Clients :
          npPc[p] = <<"Get", 57>> =>
            /\ npRet[p].get = npAbs
            /\ NPIdentity(npRet[p].get) \in SpotifyTracks \cup {NoTrack}

\* A Get has read the track of an Update while another caller waits to update to
\* a different track.
C1_Witness ==
    \E p, q \in Clients :
        /\ npPc[p] = <<"Get", 57>>
        /\ npRet[p].get.TrackID # ""
        /\ npPc[q] = <<"Update", 26>>
        /\ npArg[q].ID # npRet[p].get.TrackID

\* C2: a Get made after an Update, with no UpdateLyrics between the two, returns
\* empty lyrics.
C2_LyricsClearedByUpdate ==
    \A p \in Clients :
        (npPc[p] = <<"Get", 57>> /\ npLast = "Update") => npRet[p].get.Lyrics = ""

\* The Get follows an Update that replaced a track whose lyrics had been set.
C2_Witness ==
    \E p \in Clients :
        /\ npPc[p] = <<"Get", 57>>
        /\ npLast = "Update"
        /\ npCleared # ""
        /\ npRet[p].get.TrackID # ""
        /\ npRet[p].get.Lyrics = ""

\* The k most recent entries of log, newest first.
NewestFirst(log, k) == [i \in 1..k |-> log[Len(log) + 1 - i]]

\* C3: outside AddUnified's critical section the history holds at most maxItems
\* items, and so does every list GetItems returns.
C3_HistoryBounded ==
    /\ phWriter = 0 => Len(phItems) <= phMax
    /\ \A p \in Clients : phPc[p] = <<"GetItems", 69>> => Len(phRet[p]) <= phMax

\* More items were added than the bound allows, and the history is full.
C3_Witness ==
    /\ phWriter = 0
    /\ phMax >= 1
    /\ Len(phLog) > phMax
    /\ Len(phItems) = phMax

PHListsNewest ==
    /\ phWriter = 0 => phItems = NewestFirst(phLog, Min(Len(phLog), phMax))
    /\ \A p \in Clients :
          phPc[p] = <<"GetItems", 69>> =>
            phRet[p] = NewestFirst(phLog, Min(Len(phLog), phMax))

\* C4 as claimed: after each Add the added track is at index 0, and GetItems lists
\* the min(n, maxItems) most recent additions, newest first.
C4_AddedTrackAlwaysFirst ==
    /\ (phWriter = 0 /\ Len(phLog) >= 1) =>
          (Len(phItems) >= 1 /\ phItems[1] = phLog[Len(phLog)])
    /\ PHListsNewest

\* C4 as amended: with maxItems >= 1 the added track is at index 0 after each Add;
\* for every maxItems >= 0 the history, and what GetItems returns, is the
\* min(n, maxItems) most recent additions, newest first.
C4_NewestFirst ==
    /\ (phWriter = 0 /\ Len(phLog) >= 1 /\ phMax >= 1) =>
          (Len(phItems) >= 1 /\ phItems[1] = phLog[Len(phLog)])
    /\ PHListsNewest

\* The bound was exceeded and GetItems returns two different tracks, newest first.
C4_Witness ==
    \E p \in Clients :
        /\ phPc[p] = <<"GetItems", 69>>
        /\ Len(phLog) > phMax
        /\ Len(phRet[p]) >= 2
        /\ phRet[p][1] = phLog[Len(phLog)]
        /\ phRet[p][1].TrackID # phRet[p][2].TrackID

Returned == msPc = <<"returned", 164>>

\* The goroutines that have been started and have not ended.
Running == {w \in Workers : msW[w].pc \notin {0, Ended}}

\* C5: the list MatchSongsToMood returns has at most limit elements.
C5_AtMostLimit == Returned => Len(msResult) <= msLimit

\* More candidates were retained than the limit allows, and limit of them are returned.
C5_Witness ==
    /\ Returned
    /\ msLimit >= 1
    /\ Cardinality({w \in Workers : msW[w].score > MatchThreshold}) > msLimit
    /\ Len(msResult) = msLimit

\* C6: every returned recommendation has a score above 0.5 and at most 1.0.
C6_ScoresInRange ==
    Returned =>
        \A i \in DOMAIN msResult :
            msResult[i].MoodScore > MatchThreshold /\ msResult[i].MoodScore <= 1000

\* C7: at most 5 goroutines are between the semaphore's acquire and its release.
C7_AtMostFiveInFlight == Cardinality(InFlight) <= 5

\* Five lookups are in flight and a sixth goroutine waits for the semaphore.
C7_Witness ==
    /\ Cardinality(InFlight) = 5
    /\ \E w \in Workers : msW[w].pc = 123

\* C8: from the sort on (lines 151 to 164, and after the return) every goroutine
\* that was started has ended, so none appends to the list any more.
C8_JoinBeforeSort ==
    (msPc \in {<<"MatchSongsToMood", 151>>, <<"MatchSongsToMood", 160>>,
               <<"returned", 164>>, <<"panic", 161>>})
        => Running = {}

\* The call returned recommendations after it had started two goroutines or more.
C8_Witness ==
    /\ Returned
    /\ Cardinality({w \in Workers : msW[w].pc = Ended}) >= 2
    /\ Len(msResult) >= 1

\* The caller of MatchSongsToMood never locks the mutex.
CallerHoldsMutex == FALSE

\* C9: while goroutines are running, whoever is about to read or write
\* recommendations holds the mutex: the caller at the loop's
\* len(recommendations), a goroutine at its append.
C9_ListAccessUnderMutex ==
    Running # {} =>
        /\ (msPc = <<"MatchSongsToMood", 114>> /\ msI <= Len(msTracks)) => CallerHoldsMutex
        /\ \A w \in Workers : msW[w].pc = 137 => msMutex = w

\* C10: a second call with the same arguments and the same collaborator answers
\* returns what the first call returned, whatever the schedule of either call.
C10_SameResultOnEveryRun ==
    (Returned /\ msPrev[1] = "returned") => msResult = msPrev[2]

\* The goroutines whose candidate passed the threshold and was appended.
Retained == {w \in Workers : msW[w].pc = Ended /\ msW[w].score > MatchThreshold}

\* The goroutine whose recommendation stands at place i of the returned list.
ResultWorkers(i) ==
    {w \in Retained : msTracks[w] = msResult[i].Track /\ msW[w].score = msResult[i].MoodScore}

\* C11: the returned list is in non-increasing order of score; every element is
\* the recommendation of one retained candidate, none twice; it has limit
\* elements, or all the retained ones when they are fewer; and no retained
\* candidate that was left out scores above an element of the list.
C11_SortedTopOfRetained ==
    Returned =>
        /\ \A i, j \in DOMAIN msResult : i < j => msResult[i].MoodScore >= msResult[j].MoodScore
        /\ \A i \in DOMAIN msResult : ResultWorkers(i) # {}
        /\ \A i, j \in DOMAIN msResult : i # j => msResult[i].Track # msResult[j].Track
        /\ Len(msResult) = Min(msLimit, Cardinality(Retained))
        /\ \A w \in Retained :
              (\A i \in DOMAIN msResult : w \notin ResultWorkers(i))
                  => \A i \in DOMAIN msResult : msW[w].score <= msResult[i].MoodScore

\* Three candidates were retained, the two best are returned and the third,
\* with the lowest score, is cut.
C11_Witness ==
    /\ Returned
    /\ Cardinality(Retained) = 3
    /\ Len(msResult) = 2
    /\ \E w \in Retained : msW[w].score < msResult[2].MoodScore

\* The lookup of this candidate fails: Genius has no lyrics for it, or the AI
\* returns an error on its lyrics.
LookupFails(t) ==
    \/ GeniusGetLyrics(t.Name, t.Artist).err
    \/ AIGenerateResponse(GeniusGetLyrics(t.Name, t.Artist).lyrics).kind = "error"

\* What one candidate alone evaluates to.
ScoreAlone(t) == calculateMoodMatch(msMood, FetchLyricsWithMood(t.Name, t.Artist).MoodAnalysis)

RecommendationAlone(t) ==
    Recommendation(t, ScoreAlone(t), msMood, FetchLyricsWithMood(t.Name, t.Artist))

\* The goroutines that have ended and whose lookup did not fail.
Evaluated == {w \in Workers : msW[w].pc = Ended /\ ~LookupFails(msTracks[w])}

\* C12: a candidate whose lookup fails is neither scored nor returned and does
\* not count towards the limit; every other candidate that was started is
\* scored as it would be alone, what is returned is the recommendation each
\* such candidate gives alone, the best limit of them; candidates are left
\* unstarted only once limit matches are retained; and the call returns
\* normally (a nil error) for every limit that is not negative.
C12_FailedCandidateSkipped ==
    /\ msLimit >= 0 => msPc # <<"panic", 161>>
    /\ Returned =>
        /\ \A w \in Workers : LookupFails(msTracks[w]) => msW[w].score = 0
        /\ \A i \in DOMAIN msResult : ~LookupFails(msResult[i].Track)
        /\ \A w \in Evaluated : msW[w].score = ScoreAlone(msTracks[w])
        /\ \A i \in DOMAIN msResult : msResult[i] = RecommendationAlone(msResult[i].Track)
        /\ Len(msResult) =
              Min(msLimit, Cardinality({w \in Evaluated : ScoreAlone(msTracks[w]) > MatchThreshold}))
        /\ (\E w \in Workers : msW[w].pc = 0) => Cardinality(Retained) >= msLimit

\* A lookup failed, and a candidate that stands after the failed one in the
\* list is returned.
C12_Witness ==
    /\ Returned
    /\ \E f, w \in Workers :
          /\ f < w
          /\ msW[f].pc = Ended
          /\ LookupFails(msTracks[f])
          /\ \E i \in DOMAIN msResult : msResult[i].Track = msTracks[w]

\* C13: a call that began after a call for the same name and artist had
\* returned a record returns that record, the one every such earlier call
\* returned, and invokes neither Genius nor the AI.
C13_CachedRecordReturnedAgain ==
    \A p \in Clients :
        (GLAtReturn(p) /\ glSeen[p] # {}) =>
            /\ glPc[p][2] = 175
            /\ glInvoked[p] = 0
            /\ glSeen[p] = {glRet[p]}

\* C14: DetectMood returns no error, whatever the AI answers; and when the AI
\* returned an error or text that is no JSON, what it returns is the result of
\* the keyword fallback: a mood that qualifies with its score and related
\* moods, or the default.
C14_DetectMoodNeverFails ==
    (dmPc[1] = "returned") =>
        /\ ~dmRet.err
        /\ dmResp \in {"error", "text"} =>
              \/ dmRet.analysis = DefaultMood
              \/ \E mood \in DOMAIN MoodKeywords :
                    /\ Qualifies(ToLower(dmMsg), mood)
                    /\ dmRet.analysis =
                          MoodAnalysis(mood, KeywordScore(ToLower(dmMsg), mood), RelatedMoods[mood])

\* C15: a call that ends in the keyword fallback returns what the previous
\* call with the same message returned from the keyword fallback.
C15_FallbackDeterministic ==
    (dmPc = <<"returned", 66>> /\ dmPrev[1] = "returned" /\ dmPrev[2] = 66) => dmRet = dmPrev[3]

ChatReturned == chPc[1] = "returned"

\* C16: a query that contains a song-request pattern is given to
\* handleSongRequest and to no other handler, and gets its response.
C16_SongRequestFirst ==
    isSongRequestQuery(chQuery) =>
        /\ chTrace \in {<<>>, <<"handleSongRequest">>}
        /\ ChatReturned => (chTrace = <<"handleSongRequest">> /\ chResp = handleSongRequest(chQuery))

\* A query with a song-request pattern, an emotional keyword with a personal
\* indicator and the substring "lyric" has been answered.
C16_Witness ==
    /\ ChatReturned
    /\ isSongRequestQuery(chQuery)
    /\ containsEmotionalContent(chQuery)
    /\ Contains(ToLower(chQuery), "lyric")
    /\ chResp.Type = "song_request"

\* C17 as stated: a query that contains "lyric" and no song-request pattern is
\* given to handleLyricsQuery, with or without emotional content.
C17_LyricAlwaysLyricsHandler ==
    (ChatReturned /\ Contains(ToLower(chQuery), "lyric") /\ ~isSongRequestQuery(chQuery))
        => chTrace = <<"handleLyricsQuery">>

\* C17, amended: a query that contains "lyric" and no song-request pattern is
\* given to handleLyricsQuery when it has no emotional keyword together with a
\* personal indicator, and first to handleMoodBasedQuery when it has.
C17_LyricAfterMood ==
    (chTrace # <<>> /\ Contains(ToLower(chQuery), "lyric") /\ ~isSongRequestQuery(chQuery)) =>
        IF containsEmotionalContent(chQuery)
        THEN chTrace[1] = "handleMoodBasedQuery"
        ELSE chTrace = <<"handleLyricsQuery">>

\* A query with "lyric", an emotional keyword and a personal indicator, and no
\* song-request pattern, has been answered by the mood handler.
C17_Witness ==
    /\ ChatReturned
    /\ Contains(ToLower(chQuery), "lyric")
    /\ ~isSongRequestQuery(chQuery)
    /\ containsEmotionalContent(chQuery)
    /\ chResp.Type = "mood_recommendation"

\* C18: the ChatResponse returned has a non-empty answer or a non-empty error.
C18_AnswerOrError == ChatReturned => (chResp.Answer # "" \/ chResp.Error # "")

\* C19: the ChatResponse returned has one of the three type tags; with
\* song_request it has a song query, with mood_recommendation a mood analysis
\* and recommendations.
C19_TypeTag ==
    ChatReturned =>
        /\ chResp.Type \in {"text", "song_request", "mood_recommendation"}
        /\ chResp.Type = "song_request" => chResp.SongQuery # <<>>
        /\ chResp.Type = "mood_recommendation" =>
              (chResp.MoodAnalysis # <<>> /\ chResp.Recommendations # <<>>)

\* C20: when no song is playing, the query given to handleLyricsQuery gets the
\* fixed answer and an empty error, and the request has invoked neither the AI
\* nor the lyrics provider.
C20_NoSongNoCalls ==
    (ChatReturned /\ chTrace = <<"handleLyricsQuery">> /\ NPIsEmpty(np)) =>
        /\ chResp = ChatResponse(NoSongAnswer, "", "", <<>>, <<>>, <<>>)
        /\ \A i \in DOMAIN chCalls : chCalls[i] \notin {"AnalyzeLyrics", "GenerateResponse"}
        /\ \A p \in Clients : mrPc[p][1] # "GetLyricsForCurrentSong" /\ ~mrInvoked[p]

\* The query of the scenario has been answered while no song was playing.
C20_Witness ==
    /\ ChatReturned
    /\ chQuery = "what does the current song mean?"
    /\ chTrace = <<"handleLyricsQuery">>
    /\ np = NewNowPlaying
    /\ chResp.Answer = NoSongAnswer

\* The general handler has answered the request.
GeneralReturned == ChatReturned /\ chTrace # <<>> /\ chTrace[Len(chTrace)] = "handleGeneralQuery"

\* The calls of GenerateResponse the request has made.
GenerateCalls == {i \in DOMAIN chCalls : chCalls[i] = "GenerateResponse"}

\* C21: a query given to handleGeneralQuery invokes the AI exactly when it
\* contains a music keyword. Without one it gets the restriction message, an
\* empty error and no AI call; with one it gets the AI's text as answer and an
\* empty error, or, when the AI fails, an empty answer and a non-empty error.
C21_AIOnlyThroughGate ==
    GeneralReturned =>
        IF \E i \in DOMAIN MusicKeywords : Contains(ToLower(chQuery), MusicKeywords[i])
        THEN /\ Cardinality(GenerateCalls) = 1
             /\ chAI # <<>>
             /\ LET ai == chAI[Len(chAI)]
                IN  IF ai.err
                    THEN chResp.Answer = "" /\ chResp.Error # ""
                    ELSE chResp.Answer = ai.text /\ chResp.Error = ""
        ELSE /\ GenerateCalls = {}
             /\ chAI = <<>>
             /\ chResp.Answer = RestrictionAnswer
             /\ chResp.Error = ""

\* The scenario of the query about jazz has ended: the AI was invoked once and
\* its text is the answer.
C21_Witness ==
    /\ GeneralReturned
    /\ chQuery = "What is jazz music?"
    /\ chCalls = <<"GenerateResponse">>
    /\ chResp.Answer = "An answer in two short paragraphs."

\* C22: once GetLyricsForCurrentSong has succeeded for the current track, a call
\* that begins afterwards and ends while the track is still the same returns the
\* lyrics the earlier call returned, and does not invoke the lyrics provider.
C22_LaterCallsSameLyrics ==
    \A p \in Clients :
        (MRAtReturn(p) /\ mrSeen[p] # {}) =>
            /\ ~mrOut[p].err
            /\ \A l \in mrSeen[p] : mrOut[p].lyrics = l
            /\ ~mrInvoked[p]

\* C23: no access to r.lyricsCache is concurrent with a write of it.
C23_CacheAccessExclusive == \A p, q \in Clients : ~MRRacing(p, q)

\* C27: the lyrics NowPlaying holds are lyrics of the track it holds.
C27_LyricsOfCurrentTrack ==
    np.Lyrics # "" => np.Lyrics \in MRLyricsOf(np.TrackName, np.Artist)

\* C24: what Get and GetItems return are copies. A write a caller makes to a
\* value it was given reaches neither the stored record, nor the stored
\* history, nor a value another caller was given.
C24_ReturnedValuesAreCopies ==
    /\ np.TrackName # CallerMark
    /\ \A i \in DOMAIN phItems : phItems[i].TrackName # CallerMark
    /\ \A p \in Clients :
          /\ "np" \notin cpWrote[p] => cpNp[p].TrackName # CallerMark
          /\ "items" \notin cpWrote[p] =>
                \A i \in DOMAIN cpItems[p].items : cpItems[p].items[i].TrackName # CallerMark

\* The test's case: two callers were given the same history and the same
\* record, and one of them has written to both.
C24_Witness ==
    /\ phItems # <<>>
    /\ cpWrote[1] = {"items", "np"}
    /\ cpItems[1].items[1].TrackName = CallerMark
    /\ cpNp[1].TrackName = CallerMark
    /\ cpWrote[2] = {}
    /\ Len(cpItems[2].items) = Len(phItems)
    /\ cpItems[2].items = phItems
    /\ cpNp[2] = np
    /\ ~NPIsEmpty(np)

\* The titles and artists of the queries of C25.
RequestTitles == {"Hurt", "a sad song"}

RequestArtists == {"Cash", "Adele"}

\* C25: for a query made of a request pattern of the classifier, a title,
\* " by " and an artist, the song query returned holds the title without the
\* pattern and the artist as the query writes it.
C25_TitleAndArtistAsWritten ==
    \A i \in DOMAIN SongRequestPatterns, title \in RequestTitles, artist \in RequestArtists :
        (ChatReturned /\ chQuery = TrimSpace(SongRequestPatterns[i]) \o " " \o title \o " by " \o artist)
            => chResp.SongQuery = <<SongQuery(title, artist)>>

\* The goroutines that have computed a match score.
Scored == {w \in Workers : msW[w].score # 0}

\* C26: the score calculateMoodMatch gives lies in the band of the branch it
\* takes: 0.9 to 1.0 for the same primary mood, 0.7 to 0.9 for a related mood,
\* 0.5 to 0.8 for overlapping emotion tags, and 0.2 otherwise.
C26_ScoreInBandOfBranch ==
    \A w \in Scored :
        LET songMood == msW[w].data.MoodAnalysis
            score == msW[w].score
        IN  IF msMood.PrimaryMood = songMood.PrimaryMood
            THEN 900 <= score /\ score <= 1000
            ELSE IF /\ msMood.PrimaryMood \in DOMAIN RelatedMoods
                    /\ songMood.PrimaryMood \in Range(RelatedMoods[msMood.PrimaryMood])
            THEN 700 <= score /\ score <= 900
            ELSE IF \E i \in DOMAIN msMood.EmotionTags, j \in DOMAIN songMood.EmotionTags :
                       msMood.EmotionTags[i] = songMood.EmotionTags[j]
            THEN 500 <= score /\ score <= 800
            ELSE score = 200

\* C28: MatchSongsToMood has started a goroutine for every track of the list
\* when it returns.
C28_TaskForEveryTrack == Returned => \A w \in Workers : msW[w].pc # NotStarted.pc

\* C29: the returned list holds the limit best of all the candidates whose
\* lookup succeeds with a score above the threshold: it has limit elements, or
\* all such candidates when they are fewer, and no such candidate left out of
\* it scores above a returned one.
C29_BestOfAllCandidates ==
    (Returned /\ msLimit >= 0) =>
        LET matching == {w \in Workers :
                            ~LookupFails(msTracks[w]) /\ ScoreAlone(msTracks[w]) > MatchThreshold}
        IN  /\ Len(msResult) = Min(msLimit, Cardinality(matching))
            /\ \A w \in matching :
                  (\A i \in DOMAIN msResult : msResult[i].Track # msTracks[w])
                      => \A i \in DOMAIN msResult : ScoreAlone(msTracks[w]) <= msResult[i].MoodScore

\* The callers inside GetLyricsWithMood whose call has got lyrics from Genius.
GLFetched == {p \in Clients : glPc[p] # Idle /\ glLyrics[p] # ""}

\* C30: of the calls for one key that run together on a cache without the key,
\* at most one gets the lyrics from the provider; every call for the key
\* returns the same record; and the cache holds that record, unchanged, from
\* the first write on.
C30_OneFetchPerKey ==
    /\ \A p, q \in GLFetched : GLKey(p) = GLKey(q) => p = q
    /\ \A g, h \in glHist : g[1] = h[1] => g[2] = h[2]
    /\ \A h \in glHist : h[1] \in DOMAIN msCache /\ msCache[h[1]] = h[2]

\* The lyrics geniusService.GetLyrics returns without an error.
GeniusLyrics == {got.lyrics : got \in {g \in GeniusAnswers : ~g.err}}

\* The callers whose call is at the return of a failure, line 182 or 199.
GLFailing == {p \in Clients : GLAtReturn(p) /\ glPc[p][2] \in {182, 199}}

\* C31: a call in which GetLyrics or the AI fails returns the error; the cache
\* holds only records built from lyrics that GetLyrics returned without error;
\* a call for a key that began after a failed call for it invokes the provider
\* again, unless another call has stored a record for the key since; and the
\* step in which a call fails leaves the cache as it was.
C31_FailureLeavesCacheUnchanged ==
    /\ [](/\ \A p \in GLFailing : glRet[p] = GLError /\ glInvoked[p] >= 1
          /\ \A k \in DOMAIN msCache : ~msCache[k].err /\ msCache[k].Lyrics \in GeniusLyrics
          /\ \A p \in Clients : (GLAtReturn(p) /\ glRetry[p]) => glInvoked[p] >= 1)
    /\ [][(\E p \in Clients : p \notin GLFailing /\ (p \in GLFailing)') => msCache' = msCache]_vars

\* A call that began after a failed call for its key has fetched the lyrics
\* again, had them analysed and written the record.
C31_Witness ==
    \E p \in Clients :
        /\ glRetry[p]
        /\ glPc[p] = <<"GetLyricsWithMood", 233>>
        /\ glInvoked[p] = 2
        /\ GLKey(p) \in DOMAIN msCache
        /\ msCache[GLKey(p)] = glRet[p]

\* C37: a call that finds a record under its key while it holds the read lock,
\* and so returns it at line 175, finds the record that was fetched for its
\* own track name and artist, up to letter case.
C37_RecordOfSamePair ==
    \A p \in Clients :
        (glPc[p] = <<"GetLyricsWithMood", 173>> /\ GLKey(p) \in DOMAIN msCache)
            => glCacheFor[GLKey(p)] = GLLowerPair(p)

\* C32: the analysis DetectMood returns has one of the eight moods as primary
\* mood and a score from 0 to 1.
C32_MoodOfTheEightScoreInRange ==
    (dmPc[1] = "returned" /\ ~dmRet.err) =>
        /\ dmRet.analysis.PrimaryMood \in DOMAIN MoodKeywords
        /\ dmRet.analysis.MoodScore >= 0
        /\ dmRet.analysis.MoodScore <= 1000

\* The moods whose keyword score for the message of the call exceeds 0.2.
QualifyingMoods == {mood \in DOMAIN MoodKeywords : Qualifies(ToLower(dmMsg), mood)}

\* The keyword score of `mood` is at least that of `other`:
\* matchCount / len(keywords) compared exactly.
ScoresAtLeast(mood, other) ==
    MatchCount(ToLower(dmMsg), mood) * Len(MoodKeywords[other])
        >= MatchCount(ToLower(dmMsg), other) * Len(MoodKeywords[mood])

\* C33: fallbackMoodDetection returns a mood whose keyword score exceeds 0.2
\* and is the highest of all moods, with that score; and when no mood's score
\* exceeds 0.2, calm with score 0.3 and the tags neutral and uncertain.
C33_FallbackHighestScore ==
    (dmPc = <<"returned", 66>>) =>
        IF QualifyingMoods = {}
        THEN dmRet.analysis = DefaultMood
        ELSE /\ dmRet.analysis.PrimaryMood \in QualifyingMoods
             /\ dmRet.analysis.MoodScore =
                    KeywordScore(ToLower(dmMsg), dmRet.analysis.PrimaryMood)
             /\ \A other \in QualifyingMoods : ScoresAtLeast(dmRet.analysis.PrimaryMood, other)

\* C34: when no UpdateNowPlaying call is in progress and one has completed, the
\* first item of the play history is the track NowPlaying holds.
C34_HistoryHeadIsNowPlaying ==
    ((\A p \in Clients : mrPc[p] \notin MRUpdateFirst \cup MRUpdateSecond) /\ phLog # <<>>) =>
        /\ phItems # <<>>
        /\ phItems[1].TrackID = np.TrackID
        /\ phItems[1].TrackName = np.TrackName
        /\ phItems[1].Artist = np.Artist

\* The entries the request has appended to the mood history of the user.
HistoryAppends == SelectSeq(hsSaved[DefaultUser], LAMBDA c : c.by = ChatCaller)

\* C35: a request that was dispatched to handleMoodBasedQuery has appended one
\* entry to the mood history and its response has the type
\* mood_recommendation.
C35_MoodDispatchAppendsOnce ==
    (ChatReturned /\ "handleMoodBasedQuery" \in Range(chTrace)) =>
        /\ Len(HistoryAppends) = 1
        /\ chResp.Type = "mood_recommendation"

\* C36: the response of handleLyricsQuery to a failed GetLyricsForCurrentSong,
\* lines 245 to 247, names the song NowPlaying holds as "<name> by <artist>"
\* and the failure, has no error, and no call of the AI was made for it.
C36_FailedFetchNamesSong ==
    (chPc = <<"returned", 245>>) =>
        /\ Contains(chResp.Answer, "\"" \o np.TrackName \o " by " \o np.Artist \o "\"")
        /\ Contains(chResp.Answer, "couldn't fetch the lyrics: ")
        /\ chResp.Error = ""
        /\ chAI = <<>>
        /\ "AnalyzeLyrics" \notin Range(chCalls)

\* The <<mood, song ids>> of the entries, in order.
SavedOf(entries) == [i \in DOMAIN entries |-> <<entries[i].DetectedMood, entries[i].PlayedSongs>>]

\* The <<mood, song ids>> given to the calls, in order.
GivenTo(calls) == [i \in DOMAIN calls |-> <<calls[i].mood, calls[i].songs>>]

\* C38: GetUserMoodHistory returns, for the user, one entry per
\* SaveUserMoodHistory call that returned nil, in call order, each with the
\* mood and the song ids given to the call; and the entries an earlier call
\* returned for the user are the first entries of what it returns.
C38_HistoryRoundTrip ==
    (hsRet.user # "" /\ hsRet.err = "") =>
        /\ SavedOf(hsRet.entries) = GivenTo(hsSaved[hsRet.user])
        /\ Len(hsPrev[hsRet.user]) <= Len(hsRet.entries)
        /\ SubSeq(hsRet.entries, 1, Len(hsPrev[hsRet.user])) = hsPrev[hsRet.user]

\* C39: a call of MatchSongsToMood with a limit that is not negative returns.
C39_MatchEventuallyReturns == (msLimit >= 0) => <>Returned

\* A call with more candidates than the semaphore holds has returned, every
\* goroutine it started has ended and the semaphore is empty.
C39_Witness ==
    /\ Returned
    /\ Len(msTracks) > SemaphoreCap
    /\ \A w \in Workers : msW[w].pc = Ended
    /\ msSem = 0
    /\ msWg = 0

\* The call was made with two different moods of the enumeration.
DifferentEnumeratedMoods ==
    /\ cmRet # << >>
    /\ cmUser.PrimaryMood \in EnumeratedMoods
    /\ cmSong.PrimaryMood \in EnumeratedMoods
    /\ cmUser.PrimaryMood # cmSong.PrimaryMood

\* C40: called with two different moods of the enumeration, calculateMoodMatch
\* does not return from the related-moods branch: it returns the tag-overlap
\* score 0.5 + 0.3 * overlap / len(user tags) when a tag is shared, and 0.2
\* otherwise.
C40_RelatedBranchNotTaken ==
    DifferentEnumeratedMoods =>
        LET overlapCount == OverlapCount(cmUser.EmotionTags, cmSong.EmotionTags)
        IN  IF overlapCount > 0
            THEN /\ cmRet.line = 265
                 /\ cmRet.score = 500 + (overlapCount * 300) \div Len(cmUser.EmotionTags)
            ELSE /\ cmRet.line = 268
                 /\ cmRet.score = 200

\* A call with the moods sad and happy that share a tag has returned.
C40_Witness ==
    /\ DifferentEnumeratedMoods
    /\ cmUser.PrimaryMood = "sad"
    /\ cmSong.PrimaryMood = "happy"
    /\ OverlapCount(cmUser.EmotionTags, cmSong.EmotionTags) = 1
    /\ cmRet.score = 650

====
